---- MODULE Spec2Model ----
(***************************************************************************)
(* State-machine model of the StateVault of contextual-memory-ui           *)
(* (src/src/core/StateVault.js), Node.js branch of every operation (the    *)
(* `fs` module is present).                                                *)
(*                                                                         *)
(* Texts.  A persisted unit is a text.  A text is modelled by what         *)
(* JSON.parse and AES-256-GCM can tell about it:                           *)
(*   fmt  = "json"     the JSON text of `body` (JSON.stringify(body))      *)
(*   fmt  = "envelope" the JSON text of {encrypted, iv, authTag}; `key`    *)
(*                     names the one key under which the tag verifies and  *)
(*                     `body` is the plaintext object hidden in it.        *)
(*   key  = "tampered" ciphertext, iv or tag were changed: no key verifies *)
(*   key  = "lost"     sealed under a generated key of an earlier Vault    *)
(*                     instance (crypto.randomBytes: never drawn again)    *)
(* The hidden body of a unit that no key opens is unobservable and is kept *)
(* as a fixed placeholder.                                                 *)
(*                                                                         *)
(* Clock.  Date.now() values of the program's lifetime all have 13 digits; *)
(* the modelled timestamps 1..MaxClock all have one digit, so the          *)
(* lexicographic order of snapshot names is computed as the code computes  *)
(* it and coincides with the numeric one, as it does for real timestamps.  *)
(* The clock never runs backwards; two calls can read the same value.      *)
(*                                                                         *)
(* Storage.  _initStorage succeeds or throws; once a Vault is constructed, *)
(* reads, writes and unlinks on an available medium do not fail, except    *)
(* for a unit whose name is no file name of the storage directory.         *)
(***************************************************************************)
EXTENDS Integers, Sequences, FiniteSets, TLC

VARIABLES
  config,       \* this.config: encryptionEnabled, encryptionKey, backupEnabled
  contexts,     \* this.contexts (Map: key -> object)
  backupTimer,  \* this.backupTimer !== null
  memoryOnly,   \* this.memoryOnly === true (FALSE stands for undefined)
  ctxFiles,     \* <storagePath>/<id>.ctx : id -> text
  bakFiles,     \* <storagePath>/backups/backup_<ts>.bak : ts -> text
  clock,        \* Date.now()
  inflight,     \* backup() calls that have started and not yet returned
  last,         \* history: the operation that returned last
  shut,         \* history: shutdown() has returned on this instance
  nBackups,     \* history: backup() calls that wrote a snapshot (saturating)
  scen,         \* history: progress of shutdown(); new StateVault; restore(null)
  saved,        \* history: id -> the last saveContext of it that still counts
  platforms,        \* ContextBridge.platforms: name -> connected, contextId
  activeContext,    \* ContextBridge.activeContext
  contextHistory,   \* ContextBridge.contextHistory
  pending,          \* switchContext calls suspended at their await
  momentumVectors,  \* MomentumEngine.momentumVectors
  maxContexts,      \* the maxContexts option CONTEXTUAL passes to the bridge
  engineConfig,       \* MomentumEngine.config: halfLife, minMomentum, maxHistory
  transitionHistory,  \* MomentumEngine.transitionHistory
  scored,             \* history: contextId -> the vector last returned for it
  filterHistory,      \* AIHousekeeper.filterHistory
  given               \* the answer and the question _scoreAnswer is applied to

vaultVars == <<config, contexts, backupTimer, memoryOnly, ctxFiles, bakFiles,
               inflight, shut, nBackups, scen, saved>>

bridgeVars == <<platforms, activeContext, contextHistory, pending,
                momentumVectors, maxContexts>>

scoringVars ==
  <<engineConfig, transitionHistory, scored, filterHistory, given>>

vars == <<vaultVars, clock, last, bridgeVars, scoringVars>>

-----------------------------------------------------------------------------
(* Bounds *)

MaxClock == 3

MaxBackups == 2

MaxFiltered == 2

MaxCandidates == 2

MaxTokens == 2

-----------------------------------------------------------------------------
(* Values *)

Ids == {"c1", "c2"}

Data == {"a", "b"}

\* An id with a path separator in it, such as "notes/today".
PathId == "d/x"

Undefined == "undefined"

\* Context objects a caller hands to saveContext: { id, ...payload }.
ContextObjs == [id : Ids, data : Data]

\* A payload that is a Date; JSON text holds its ISO string instead.
DateValue == "date"

IsoString == "isostring"

\* An object with a payload and no id.
NoIdObj == [id |-> Undefined, data |-> "a"]

\* JSON.parse of an envelope text: { encrypted, iv, authTag }; it has no id
\* (ctx.id is undefined) and no `contexts` member.
EnvelopeObj == [id |-> Undefined, data |-> "envelope"]

\* The JavaScript value null, where an object is expected.
NullObj == [id |-> "null", data |-> "null"]

\* Plaintext of a snapshot unit that no key opens (placeholder).
NoSnapshot == [timestamp |-> 0, contexts |-> {}]

\* Keys a caller can supply ("k1": 32 bytes of hex; "bad": not a usable
\* AES-256 key) and "gen": config.encryptionKey absent, _generateKey() used.
ConfigKeys == {"k1", "gen", "bad"}

\* With encryption disabled the key is never used: one key stands for all.
Configs ==
  {c \in [encryptionEnabled : BOOLEAN, encryptionKey : ConfigKeys,
          backupEnabled : BOOLEAN] :
     ~c.encryptionEnabled => c.encryptionKey = "k1"}

EmptyMap == [k \in {} |-> NullObj]

Min(a, b) == IF a < b THEN a ELSE b

-----------------------------------------------------------------------------
(* Serialisation and encryption *)

\* What JSON.parse reads back from the JSON text of a value: a Date has
\* become a string, every other modelled payload is itself.
JsonValue(v) == IF v = DateValue THEN IsoString ELSE v

JsonObject(o) == [o EXCEPT !.data = JsonValue(@)]

\* JSON.stringify of a context object or of a snapshot { timestamp, contexts };
\* `body` is the value the text denotes.
JSONstringify(obj) ==
  [fmt |-> "json", key |-> "-",
   body |-> IF "contexts" \in DOMAIN obj
              THEN [obj EXCEPT !.contexts = {JsonObject(o) : o \in @}]
              ELSE JsonObject(obj)]

\* createCipheriv throws on a key that is not 32 bytes.
KeyUsable(k) == k # "bad"

\* _encrypt: the envelope, or on any exception the data itself.
_encrypt(data) ==
  IF KeyUsable(config.encryptionKey)
    THEN [fmt |-> "envelope", key |-> config.encryptionKey, body |-> data.body]
    ELSE data

\* The try block of _decrypt throws: the text is no envelope (JSON.parse or
\* Buffer.from(undefined) throws), the key is unusable, or the tag does not
\* verify under this key (decipher.final throws).
DecryptThrows(text) ==
  ~(text.fmt = "envelope" /\ KeyUsable(config.encryptionKey)
    /\ text.key = config.encryptionKey)

\* _decrypt: the plaintext, or on any exception the input itself.
_decrypt(text) ==
  IF DecryptThrows(text)
    THEN text
    ELSE [fmt |-> "json", key |-> "-", body |-> text.body]

\* encryptionEnabled ? this._encrypt(data) : data
Sealed(data) == IF config.encryptionEnabled THEN _encrypt(data) ELSE data

\* encryptionEnabled ? this._decrypt(data) : data
Opened(text) == IF config.encryptionEnabled THEN _decrypt(text) ELSE text

\* JSON.parse of a context unit's text.
ParseContext(text) == IF text.fmt = "json" THEN text.body ELSE EnvelopeObj

\* JSON.parse accepts every modelled text; a snapshot text yields an object
\* with a `contexts` member only when it is the JSON of a snapshot.
HasContexts(text) == text.fmt = "json"

Put(f, k, v) == [x \in DOMAIN f \cup {k} |-> IF x = k THEN v ELSE f[x]]

-----------------------------------------------------------------------------
(* Snapshot names and rotation *)

RECURSIVE Digits(_)
\* `${timestamp}`: the decimal digits of the timestamp.
Digits(n) == IF n < 10 THEN <<n>> ELSE Append(Digits(n \div 10), n % 10)

RECURSIVE LexLess(_, _)
\* String order of "backup_<s>.bak" and "backup_<t>.bak": after the common
\* prefix the digits decide, and '.' sorts before every digit.
LexLess(s, t) ==
  IF s = <<>> THEN t # <<>>
  ELSE IF t = <<>> THEN FALSE
  ELSE IF Head(s) # Head(t) THEN Head(s) < Head(t)
  ELSE LexLess(Tail(s), Tail(t))

NameBefore(a, b) == LexLess(Digits(a), Digits(b))

RECURSIVE SortNames(_)
\* Array.prototype.sort() of the snapshot names.
SortNames(S) ==
  IF S = {} THEN <<>>
  ELSE LET m == CHOOSE x \in S : \A y \in S \ {x} : NameBefore(x, y)
       IN  <<m>> \o SortNames(S \ {m})

RECURSIVE Unlinked(_)
\* while (files.length > maxBackups) unlink(files.shift())
Unlinked(files) ==
  IF Len(files) > MaxBackups
    THEN {Head(files)} \cup Unlinked(Tail(files))
    ELSE {}

_cleanOldBackups(dir) ==
  LET gone == Unlinked(SortNames(DOMAIN dir))
  IN  [t \in DOMAIN dir \ gone |-> dir[t]]

-----------------------------------------------------------------------------
(* Values of the Momentum Engine and the Housekeeper.  A number is kept in   *)
(* fixed point: the integer n stands for n / One, and a quotient is rounded  *)
(* down to the next multiple of 1 / One.                                     *)

One == 1000000

\* What the engine reads of context.state: the names of its keys, the
\* numbers state.confidence and state.certainty, the length of the array
\* state.steps and the word that is state.topic; a field whose key is absent
\* is not read.
EmptyState ==
  [keys |-> {}, confidence |-> 0, certainty |-> 0, steps |-> 0,
   topic |-> "-"]

\* A transition record: one shaped as the bridge shapes it has `from` and
\* `to`, one shaped as the engine reads it has `target` or `source`.
NoTransition ==
  [from |-> Undefined, to |-> Undefined, target |-> Undefined,
   source |-> Undefined]

\* null, where a context is expected.
NullContext ==
  [id |-> "null", appId |-> "null", lastAccess |-> 0, accessCount |-> 0,
   hasState |-> FALSE, state |-> EmptyState, transitions |-> <<>>]

\* null, where a momentum vector is expected.
NoVector ==
  [timestamp |-> 0, contextId |-> "null", overall |-> 0,
   factors |-> [temporal |-> 0, semantic |-> 0, operational |-> 0,
                depth |-> 0, confidence |-> 0]]

\* A text as the Housekeeper reads it: its tokens in order, followed by
\* `pad` further words that match none of the scorer's patterns.
EmptyText == [tokens |-> <<>>, pad |-> 0]

NoScore ==
  [overall |-> 0,
   factors |-> [relevance |-> 0, completeness |-> 0, structure |-> 0,
                confidence |-> 0, contradiction |-> 0, context |-> 0,
                specificity |-> 0, evidence |-> 0]]

NoResult == [answer |-> EmptyText, score |-> NoScore, confidence |-> 0]

-----------------------------------------------------------------------------
(* History records *)

\* What the last returned operation was and did: its name (`op`; for a
\* backup the caller: "backup", "tick" or "shutdown"), the context id it was
\* given, the snapshot timestamp it wrote (`ts`), for restore whether the
\* argument was null (`latest`) and which snapshot it read (`chosen`, 0 for
\* none), its result, for loadContext the object returned and whether the
\* map held the id (`hit`), whether _decrypt took its catch branch, the
\* number of snapshot units written and the format of the unit written.
\* For a call on the bridge or the facade: the platform it was given (`id`),
\* whether that platform was connected when the call was made, the active
\* context (`prev`) and the ledger length (`lenBefore`) at that moment, and
\* whether another operation ran between the call and its return.
\* For a call on the engine: the context and the previous context it was
\* given, the vector it returned and the transition it was given.  For a
\* call on the Housekeeper: the candidates (`isArray`: they are an array)
\* and the question it was given, and the result it returned.  For the
\* constructor of the facade: the ids it put into the bridge (`restored`).
L0 == [op |-> "none", id |-> "-", ts |-> 0, latest |-> FALSE, chosen |-> 0,
       ret |-> "-",
       obj |-> NullObj, hit |-> FALSE, decFailed |-> FALSE,
       nWrites |-> 0, wrote |-> "-",
       connected |-> FALSE, prev |-> "-", lenBefore |-> 0,
       interleaved |-> FALSE,
       context |-> NullContext, previous |-> NullContext,
       vector |-> NoVector, transition |-> NoTransition,
       isArray |-> TRUE, candidates |-> <<>>, question |-> EmptyText,
       result |-> NoResult, restored |-> {}]

\* stage 1: shutdown() returned with `pre` in memory; 2: a new instance was
\* constructed next (`same`: storage available to both, same encryption
\* setting and supplied key); 3: restore(null) returned next.
ScenReset == [stage |-> 0, pre |-> EmptyMap, same |-> FALSE]

\* backup() made asynchronous (an awaited write): callbacks and calls start
\* while a backup is still in progress.
JsIdleAsyncWrite == TRUE

\* JavaScript runs a synchronous call to completion: backup() has no await
\* and writes with writeFileSync, so no other callback or call starts
\* while a backup is on the stack.
JsIdle == inflight = <<>>

-----------------------------------------------------------------------------
(* Operations *)

\* path.join(storagePath, `${id}.ctx`) names a file of the storage directory:
\* the id has no path separator in it.  For any other id writeFileSync throws
\* (no such directory) and existsSync finds nothing.
WritableName(id) == id # PathId

\* _persistContext: the unit is written, or the exception is logged.
_persistContext(c) ==
  IF WritableName(c.id)
    THEN Put(ctxFiles, c.id, Sealed(JSONstringify(c)))
    ELSE ctxFiles

_loadContextFromDisk(id) ==
  IF id \notin DOMAIN ctxFiles
    THEN NullObj
    ELSE ParseContext(Opened(ctxFiles[id]))

\* The guard of saveContext that forgets to look at the id.
RejectsNullOnly(c) == c = NullObj

\* !context || !context.id
Rejects(c) == c = NullObj \/ c.id = Undefined

\* saveContext(context): throws before it touches anything, or stores the
\* object in the map and, unless in fallback mode, persists it.
saveContext(c) ==
  /\ JsIdle
  /\ contexts' = IF Rejects(c) THEN contexts ELSE Put(contexts, c.id, c)
  /\ ctxFiles' = IF Rejects(c) \/ memoryOnly THEN ctxFiles
                 ELSE _persistContext(c)
  /\ last' = [L0 EXCEPT !.op = "saveContext", !.id = c.id,
                        !.ret = IF Rejects(c) THEN "Error" ELSE "undefined",
                        !.wrote = IF \/ Rejects(c)
                                     \/ memoryOnly
                                     \/ ~WritableName(c.id)
                                    THEN "-"
                                    ELSE Sealed(JSONstringify(c)).fmt]
  /\ scen' = ScenReset
  /\ UNCHANGED <<bridgeVars, scoringVars>>
  /\ UNCHANGED <<config, backupTimer, memoryOnly, bakFiles, clock, inflight,
                 shut, nBackups>>

\* saved[id]: the object of the last saveContext of id that was not followed
\* by deleteContext(id) or clearAll, with the encryption setting and key of
\* the Vault that took it, whether that Vault had storage (`disk`) and
\* whether it is the present instance (`live`).  A restart drops what only a
\* fallback-mode instance held and what was sealed under a generated key.
NoneSaved == [k \in {} |-> [obj |-> NullObj, enc |-> FALSE, key |-> "-",
                            disk |-> FALSE, live |-> FALSE]]

Remember(c) ==
  IF Rejects(c) THEN saved
  ELSE Put(saved, c.id, [obj |-> c, enc |-> config.encryptionEnabled,
                         key |-> config.encryptionKey, disk |-> ~memoryOnly,
                         live |-> TRUE])

AfterRestart ==
  [k \in {i \in DOMAIN saved :
            saved[i].disk /\ (saved[i].enc => saved[i].key # "gen")}
     |-> [saved[k] EXCEPT !.live = FALSE]]

\* A load that keeps nothing of what it read.
CacheNothing(id, context) == contexts

\* if (context) this.contexts.set(contextId, context)
Cache(id, context) ==
  IF context # NullObj THEN Put(contexts, id, context) ELSE contexts

loadContext(id) ==
  LET hit  == id \in DOMAIN contexts
      disk == IF memoryOnly THEN NullObj ELSE _loadContextFromDisk(id)
  IN  /\ JsIdle
      /\ contexts' = IF hit THEN contexts ELSE Cache(id, disk)
      /\ last' = [L0 EXCEPT !.op = "loadContext", !.id = id, !.hit = hit,
                            !.obj = IF hit THEN contexts[id] ELSE disk,
                            !.ret = "object",
                            !.decFailed = /\ ~hit
                                          /\ ~memoryOnly
                                          /\ id \in DOMAIN ctxFiles
                                          /\ config.encryptionEnabled
                                          /\ DecryptThrows(ctxFiles[id])]
      /\ scen' = ScenReset
      /\ UNCHANGED <<bridgeVars, scoringVars>>
      /\ UNCHANGED <<saved, config, backupTimer, memoryOnly, ctxFiles, bakFiles,
                     clock, inflight, shut, nBackups>>

\* What loadContext(id) returns in the present state.
LoadResult(id) ==
  IF id \in DOMAIN contexts THEN contexts[id]
  ELSE IF memoryOnly THEN NullObj
  ELSE _loadContextFromDisk(id)

\* backupData = { timestamp, contexts: Array.from(this.contexts.values()) },
\* serialised and sealed.
backupText(ts) ==
  Sealed(JSONstringify([timestamp |-> ts,
                        contexts |-> {contexts[k] : k \in DOMAIN contexts}]))

\* History kept when shutdown() returns.
AfterReturn(caller) ==
  /\ shut' = (shut \/ caller = "shutdown")
  /\ scen' = IF caller = "shutdown"
               THEN [stage |-> 1, pre |-> contexts, same |-> FALSE]
               ELSE ScenReset

\* backup(), up to the write: in fallback mode it returns at once; otherwise
\* the timestamp is read and the snapshot text is built.
backupBegin(caller) ==
  IF memoryOnly
    THEN /\ last' = [L0 EXCEPT !.op = caller, !.ret = "undefined"]
         /\ AfterReturn(caller)
         /\ UNCHANGED inflight
    ELSE /\ inflight' = Append(inflight, [caller |-> caller, ts |-> clock,
                                          data |-> backupText(clock)])
         /\ UNCHANGED <<last, shut, scen>>

\* backup(), explicit call.
backup ==
  /\ JsIdle
  /\ backupBegin("backup")
  /\ UNCHANGED <<bridgeVars, scoringVars>>
  /\ UNCHANGED <<saved, config, contexts, backupTimer, memoryOnly, ctxFiles, bakFiles,
                 clock, nBackups>>

\* The setInterval callback of _startAutoBackup.
timerTick ==
  /\ JsIdle
  /\ backupTimer
  /\ backupBegin("tick")
  /\ UNCHANGED <<bridgeVars, scoringVars>>
  /\ UNCHANGED <<saved, config, contexts, backupTimer, memoryOnly, ctxFiles, bakFiles,
                 clock, nBackups>>

\* stopAutoBackup that leaves the interval armed.
stopAutoBackupKeepsTimer == backupTimer

\* stopAutoBackup: clearInterval and backupTimer = null.
stopAutoBackup == FALSE

\* shutdown(): stopAutoBackup(), then backup().
shutdown ==
  /\ JsIdle
  /\ backupTimer' = stopAutoBackup
  /\ backupBegin("shutdown")
  /\ UNCHANGED <<bridgeVars, scoringVars>>
  /\ UNCHANGED <<saved, config, contexts, memoryOnly, ctxFiles, bakFiles, clock,
                 nBackups>>

\* backup(), from writeFileSync to the return: the snapshot unit is written
\* under its timestamp's name, then rotation runs.
backupWrite ==
  /\ inflight # <<>>
  /\ LET b == Head(inflight)
     IN  /\ bakFiles' = _cleanOldBackups(Put(bakFiles, b.ts, b.data))
         /\ last' = [L0 EXCEPT !.op = b.caller, !.ts = b.ts,
                               !.ret = "timestamp", !.nWrites = 1,
                               !.wrote = b.data.fmt]
         /\ AfterReturn(b.caller)
  /\ inflight' = Tail(inflight)
  /\ nBackups' = Min(nBackups + 1, MaxBackups + 1)
  /\ UNCHANGED <<bridgeVars, scoringVars>>
  /\ UNCHANGED <<saved, config, contexts, backupTimer, memoryOnly, ctxFiles, clock>>

\* contexts.forEach(ctx => this.contexts.set(ctx.id, ctx)).  The objects of
\* a snapshot are the values of a Map keyed by their ids (an envelope object
\* has the id undefined), so no two distinct ones share an id.
RestoreMap(S) == [k \in {o.id : o \in S} |-> CHOOSE o \in S : o.id = k]

\* restore(timestamp), timestamp 0 standing for null.  `lastListed` is the
\* name readdirSync lists last: the listing order is the file system's, and
\* restore does not sort it.
restore(timestamp, lastListed) ==
  LET files      == DOMAIN bakFiles
      backupFile == IF timestamp # 0 THEN timestamp ELSE lastListed
      readable   == ~memoryOnly /\ files # {} /\ backupFile \in files
      decrypted  == Opened(bakFiles[backupFile])
      ok         == readable /\ HasContexts(decrypted)
  IN  /\ JsIdle
      /\ lastListed \in (IF files = {} THEN {0} ELSE files)
      /\ contexts' = IF ~readable THEN contexts
                     ELSE IF ok THEN RestoreMap(decrypted.body.contexts)
                     ELSE EmptyMap
      /\ last' = [L0 EXCEPT !.op = "restore", !.latest = (timestamp = 0),
                            !.chosen = IF readable THEN backupFile ELSE 0,
                            !.ret = IF ok THEN "true" ELSE "false",
                            !.decFailed = /\ readable
                                          /\ config.encryptionEnabled
                                          /\ DecryptThrows(bakFiles[backupFile])]
      /\ scen' = IF scen.stage = 2 /\ timestamp = 0
                   THEN [scen EXCEPT !.stage = 3]
                   ELSE ScenReset
      /\ UNCHANGED <<bridgeVars, scoringVars>>
      /\ UNCHANGED <<saved, config, backupTimer, memoryOnly, ctxFiles, bakFiles, clock,
                     inflight, shut, nBackups>>

\* getStats()
getStats ==
  [contextCount |-> Cardinality(DOMAIN contexts),
   encrypted    |-> config.encryptionEnabled,
   memoryOnly   |-> memoryOnly,
   autoBackup   |-> backupTimer]

\* deleteContext(contextId): the map entry and the unit, if any, go.
deleteContext(id) ==
  /\ JsIdle
  /\ contexts' = [k \in DOMAIN contexts \ {id} |-> contexts[k]]
  /\ ctxFiles' = IF memoryOnly THEN ctxFiles
                 ELSE [k \in DOMAIN ctxFiles \ {id} |-> ctxFiles[k]]
  /\ saved' = [k \in DOMAIN saved \ {id} |-> saved[k]]
  /\ last' = [L0 EXCEPT !.op = "deleteContext", !.id = id, !.ret = "undefined"]
  /\ scen' = ScenReset
  /\ UNCHANGED <<bridgeVars, scoringVars>>
  /\ UNCHANGED <<config, backupTimer, memoryOnly, bakFiles, clock, inflight,
                 shut, nBackups>>

\* clearAll(): the map is emptied and every .ctx unit is unlinked.
clearAll ==
  /\ JsIdle
  /\ contexts' = EmptyMap
  /\ ctxFiles' = IF memoryOnly THEN ctxFiles ELSE EmptyMap
  /\ saved' = NoneSaved
  /\ last' = [L0 EXCEPT !.op = "clearAll", !.ret = "undefined"]
  /\ scen' = ScenReset
  /\ UNCHANGED <<bridgeVars, scoringVars>>
  /\ UNCHANGED <<config, backupTimer, memoryOnly, bakFiles, clock, inflight,
                 shut, nBackups>>

-----------------------------------------------------------------------------
(* Construction and environment *)

\* A unit sealed under the generated key of the instance that goes away can
\* never be opened again.
Forget(dir, placeholder) ==
  [n \in DOMAIN dir |->
     IF dir[n].fmt = "envelope" /\ dir[n].key = "gen"
       THEN [fmt |-> "envelope", key |-> "lost", body |-> placeholder]
       ELSE dir[n]]

\* _startAutoBackup runs when config.backupEnabled, whatever _initStorage did.
startsTimer(cfg, storageOk) == cfg.backupEnabled

\* The process is restarted: new StateVault(cfg) on the same storagePath;
\* storageOk: mkdirSync does not throw in _initStorage.
NewVault(cfg, storageOk) ==
  /\ JsIdle
  /\ config' = cfg
  /\ contexts' = EmptyMap
  /\ memoryOnly' = ~storageOk
  /\ backupTimer' = startsTimer(cfg, storageOk)
  /\ ctxFiles' = Forget(ctxFiles, NullObj)
  /\ bakFiles' = Forget(bakFiles, NoSnapshot)
  /\ shut' = FALSE
  /\ scen' = IF scen.stage = 1
               THEN [stage |-> 2, pre |-> scen.pre,
                     same |-> /\ storageOk /\ ~memoryOnly
                              /\ cfg.encryptionEnabled = config.encryptionEnabled
                              /\ cfg.encryptionEnabled =>
                                   /\ cfg.encryptionKey = config.encryptionKey
                                   /\ cfg.encryptionKey # "gen"]
               ELSE ScenReset
  /\ UNCHANGED <<clock, inflight, nBackups>>

construct(cfg, storageOk) ==
  /\ NewVault(cfg, storageOk)
  /\ last' = [L0 EXCEPT !.op = "construct"]
  /\ UNCHANGED <<bridgeVars, scoringVars>>

\* The persisted unit of a context is changed outside the program
\* (ciphertext, iv or auth tag altered, or the tag removed).
tamperContext(id) ==
  /\ JsIdle
  /\ id \in DOMAIN ctxFiles
  /\ ctxFiles[id].fmt = "envelope"
  /\ ctxFiles[id].key \notin {"tampered", "lost"}
  /\ ctxFiles' = [ctxFiles EXCEPT ![id] =
                    [fmt |-> "envelope", key |-> "tampered", body |-> NullObj]]
  /\ last' = [L0 EXCEPT !.op = "tamper", !.id = id]
  /\ scen' = ScenReset
  /\ UNCHANGED <<bridgeVars, scoringVars>>
  /\ UNCHANGED <<saved, config, contexts, backupTimer, memoryOnly, bakFiles, clock,
                 inflight, shut, nBackups>>

\* Time passes.
clockTick ==
  /\ JsIdle
  /\ clock < MaxClock
  /\ clock' = clock + 1
  /\ UNCHANGED <<bridgeVars, scoringVars>>
  /\ UNCHANGED <<saved, config, contexts, backupTimer, memoryOnly, ctxFiles, bakFiles,
                 inflight, last, shut, nBackups, scen>>

-----------------------------------------------------------------------------
(* ContextBridge (src/src/core/src/core/MomentumEngine.js, second class) and *)
(* the CONTEXTUAL facade (index.js).  A bridge context is the connection to  *)
(* one platform, known by its contextId.  Not modelled: the `config` kept    *)
(* with a platform, bridgeCallbacks (onBridge), normalizeConversation and the *)
(* timestamps of ledger records, none of which any operation reads back.     *)

MaxHistory == 2

MaxPending == 1

Platforms == {"chatgpt", "claude", "perplexity", "gemini"}

\* A name that is no key of this.platforms.
UnknownPlatform == "copilot"

\* The JavaScript value null, where a platform name is expected.
Null == "null"

\* Values of Math.random().toString(36).substr(2, 9).
Randoms == {"r1", "r2"}

NullId == <<Null, 0, "-">>

\* this.platforms as the constructor leaves it.
NoPlatforms == [p \in Platforms |-> [connected |-> FALSE, contextId |-> NullId]]

\* An id built as _generateId builds one: without the platform's name.
IdWithoutPlatform(platform, rand) == <<"id", clock, rand>>

\* `${platform}-${Date.now()}-${random}`; no platform name contains '-', so
\* the three parts determine the string and the string determines them.
_generateContextId(platform, rand) == <<platform, clock, rand>>

\* this.platforms[platform]?.connected
IsConnected(platform) ==
  platform \in DOMAIN platforms /\ platforms[platform].connected

Connected == {p \in Platforms : platforms[p].connected}

\* Every suspended switchContext has seen another operation run.
Mark(q) == [i \in DOMAIN q |-> [q[i] EXCEPT !.interleaved = TRUE]]

\* History of a call that returns at once.
BridgeCall(op, platform) == [L0 EXCEPT !.op = op, !.id = platform]

\* The same, for the calls whose circumstances the properties refer to.
BridgeCallAt(op, platform) ==
  [L0 EXCEPT !.op = op, !.id = platform, !.connected = IsConnected(platform),
             !.prev = activeContext, !.lenBefore = Len(contextHistory)]

\* connect(platform, config): no await in its body, so it runs to its return
\* when called.
connect(platform, rand) ==
  /\ platforms' =
       IF platform \in DOMAIN platforms
         THEN [platforms EXCEPT ![platform] =
                 [connected |-> TRUE,
                  contextId |-> _generateContextId(platform, rand)]]
         ELSE platforms
  /\ last' = [BridgeCall("connect", platform) EXCEPT
                !.ret = IF platform \in DOMAIN platforms THEN "true"
                        ELSE "Error"]
  /\ pending' = Mark(pending)
  /\ UNCHANGED <<activeContext, contextHistory, momentumVectors, maxContexts>>
  /\ UNCHANGED <<vaultVars, clock, scoringVars>>

\* The record pushed on contextHistory that names the target as its source.
HistoryRecordFromTarget(previousContext, platform, transferContext) ==
  [from |-> platform, to |-> platform, transferred |-> transferContext]

\* The record switchContext pushes on contextHistory.
HistoryRecord(previousContext, platform, transferContext) ==
  [from |-> previousContext, to |-> platform, transferred |-> transferContext]

\* switchContext(platform, transferContext), from the call to its first
\* suspension or, when nothing is transferred, to its return.
switchBegin(platform, transferContext) ==
  LET previousContext == activeContext
      call == BridgeCallAt("switchContext", platform)
  IN  /\ IF ~IsConnected(platform)
           THEN /\ last' = [call EXCEPT !.ret = "Error"]
                /\ pending' = Mark(pending)
                /\ UNCHANGED <<activeContext, contextHistory>>
           ELSE IF transferContext /\ previousContext # Null
             THEN /\ Len(pending) < MaxPending
                  /\ pending' = Append(Mark(pending),
                                       [platform |-> platform,
                                        previousContext |-> previousContext,
                                        lenBefore |-> Len(contextHistory),
                                        interleaved |-> FALSE])
                  /\ UNCHANGED <<last, activeContext, contextHistory>>
             ELSE /\ activeContext' = platform
                  /\ contextHistory' =
                       Append(contextHistory,
                              HistoryRecord(previousContext, platform,
                                            transferContext))
                  /\ last' = [call EXCEPT !.ret = "success"]
                  /\ pending' = Mark(pending)
      /\ UNCHANGED <<platforms, momentumVectors, maxContexts>>
      /\ UNCHANGED <<vaultVars, clock, scoringVars>>

\* The same while the ledger and the suspended calls together are short of
\* MaxHistory records.
switchContext(platform, transferContext) ==
  /\ Len(contextHistory) + Len(pending) < MaxHistory
  /\ switchBegin(platform, transferContext)

\* switchContext after `await this._transferContextData(...)`: the timers of
\* _transferContextData all wait 100 ms, so they fire in the order set.
switchResume ==
  /\ pending # <<>>
  /\ LET call == Head(pending)
     IN  /\ activeContext' = call.platform
         /\ contextHistory' =
              Append(contextHistory,
                     HistoryRecord(call.previousContext, call.platform, TRUE))
         /\ last' = [L0 EXCEPT !.op = "switchContext", !.id = call.platform,
                               !.connected = TRUE, !.ret = "success",
                               !.prev = call.previousContext,
                               !.lenBefore = call.lenBefore,
                               !.interleaved = call.interleaved]
  /\ pending' = Mark(Tail(pending))
  /\ UNCHANGED <<platforms, momentumVectors, maxContexts>>
  /\ UNCHANGED <<vaultVars, clock, scoringVars>>

\* bridgeMessage(message, targetPlatform) with no callback registered.
bridgeMessage(targetPlatform) ==
  /\ last' = [BridgeCall("bridgeMessage", targetPlatform) EXCEPT
                !.ret = IF IsConnected(targetPlatform) THEN "success"
                        ELSE "Error"]
  /\ pending' = Mark(pending)
  /\ UNCHANGED <<platforms, activeContext, contextHistory, momentumVectors,
                 maxContexts>>
  /\ UNCHANGED <<vaultVars, clock, scoringVars>>

\* The effect of disconnect(platform) on this.platforms.
Disconnected(plats, platform) ==
  IF platform \in DOMAIN plats
    THEN [plats EXCEPT ![platform] = [connected |-> FALSE, contextId |-> NullId]]
    ELSE plats

disconnect(platform) ==
  /\ platforms' = Disconnected(platforms, platform)
  /\ activeContext' = IF platform \in DOMAIN platforms
                         /\ activeContext = platform
                        THEN Null ELSE activeContext
  /\ last' = [BridgeCall("disconnect", platform) EXCEPT
                !.ret = IF platform \in DOMAIN platforms THEN "true"
                        ELSE "false"]
  /\ pending' = Mark(pending)
  /\ UNCHANGED <<contextHistory, momentumVectors, maxContexts>>
  /\ UNCHANGED <<vaultVars, clock, scoringVars>>

disconnectAll ==
  /\ platforms' = NoPlatforms
  /\ activeContext' = Null
  /\ contextHistory' = <<>>
  /\ last' = [BridgeCall("disconnectAll", "-") EXCEPT !.ret = "undefined"]
  /\ pending' = Mark(pending)
  /\ UNCHANGED <<momentumVectors, maxContexts>>
  /\ UNCHANGED <<vaultVars, clock, scoringVars>>

\* A call through the facade to a method ContextBridge does not define
\* (createContext, transition, updateState): `this.bridge.<name> is not a
\* function` is thrown before anything else runs.
NotAFunction(op, arg) ==
  /\ last' = [BridgeCallAt(op, arg) EXCEPT !.ret = "TypeError"]
  /\ pending' = Mark(pending)
  /\ UNCHANGED <<platforms, activeContext, contextHistory, momentumVectors,
                 maxContexts>>
  /\ UNCHANGED <<vaultVars, clock, scoringVars>>

\* CONTEXTUAL.createContext(appId, initialState)
createContext(appId) == NotAFunction("createContext", appId)

\* CONTEXTUAL.transition(targetContextId, transitionData): the call of
\* bridge.transition throws, so calculateMomentum is not reached.
transition(targetContextId) == NotAFunction("transition", targetContextId)

\* CONTEXTUAL.updateState(stateUpdate)
updateState == NotAFunction("updateState", "-")

\* MomentumEngine.calculateMomentum(context, previousContext), called on the
\* engine directly: the vector is stored under context.id.  Of the vector
\* only the previous context the cross-context factors were computed
\* against is kept (Null: the defaults for no previous context).
calculateMomentum(platform, previousContext) ==
  /\ IsConnected(platform)
  /\ previousContext # platform
  /\ momentumVectors' =
       Put(momentumVectors, platforms[platform].contextId,
           [contextId |-> platforms[platform].contextId,
            previousContext |-> previousContext])
  /\ last' = [BridgeCall("calculateMomentum", platform) EXCEPT !.ret = "vector"]
  /\ pending' = Mark(pending)
  /\ UNCHANGED <<platforms, activeContext, contextHistory, maxContexts>>
  /\ UNCHANGED <<vaultVars, clock, scoringVars>>

\* new ContextBridge({ maxContexts }): the constructor takes no argument.
BridgeConstructed ==
  /\ platforms = NoPlatforms
  /\ activeContext = Null
  /\ contextHistory = <<>>
  /\ pending = <<>>
  /\ momentumVectors = [k \in {} |-> [contextId |-> NullId,
                                      previousContext |-> Null]]

\* config.maxContexts || 100
DefaultMaxContexts == 100

-----------------------------------------------------------------------------
(* MomentumEngine (src/src/core/src/core/MomentumEngine.js, first class).    *)
(* Of context.state the engine reads the key names, the text JSON.stringify  *)
(* makes of it, state.confidence, state.certainty and the reasoning keys;    *)
(* modelled are the keys confidence, certainty, steps (an array of numbers)  *)
(* and topic (one word).  Not modelled: the reasoning keys other than steps. *)

MathMax(a, b) == IF a > b THEN a ELSE b

\* 2^(-r/4) for r = 0, 1, 2, 3.
QuarterPowers == <<1000000, 840896, 707107, 594604>>

\* Math.exp(-decayConstant * timeSinceAccess) with decayConstant =
\* Math.log(2) / halfLife: 2 to the power -timeSinceAccess / halfLife.  The
\* modelled half-lives divide four clock ticks, so the exponent is a whole
\* number q of quarters.
MathExp(timeSinceAccess) ==
  LET q == (4 * timeSinceAccess) \div engineConfig.halfLife
      d == q \div 4
      r == q % 4
  IN  IF d >= 0 THEN QuarterPowers[r + 1] \div (2 ^ d)
      ELSE QuarterPowers[r + 1] * (2 ^ (0 - d))

\* The decay without its lower limit.
TemporalWithoutFloor(context) == MathExp(clock - context.lastAccess)

\* Factor 1
_calculateTemporalMomentum(context) ==
  MathMax(engineConfig.minMomentum, MathExp(clock - context.lastAccess))

\* The words of the modelled states and their lengths.
WordLength(word) ==
  CASE word = "confidence" -> 10
    [] word = "certainty" -> 9
    [] word = "physics" -> 7
    [] word \in {"steps", "topic"} -> 5
    [] word \in {"that", "next"} -> 4
    [] OTHER -> 1

StopWords ==
  {"this", "that", "with", "from", "have", "been", "were", "what", "when",
   "where", "which", "while"}

_isStopWord(word) == word \in StopWords

\* The words of JSON.stringify(state).toLowerCase(): the key names and the
\* string values (the numbers of the modelled states have fewer than four
\* digits in a row).
JsonWords(state) ==
  state.keys \cup (IF "topic" \in state.keys THEN {state.topic} ELSE {})

\* text.match(/\b\w{4,}\b/g), stop words left out
_extractKeywords(state) ==
  {word \in JsonWords(state) : WordLength(word) >= 4 /\ ~_isStopWord(word)}

_calculateOverlap(set1, set2) ==
  LET intersection == set1 \cap set2
      union == set1 \cup set2
  IN  IF Cardinality(union) > 0
        THEN (Cardinality(intersection) * One) \div Cardinality(union)
        ELSE 0

\* Factor 2: 0.6 * jaccard + 0.4 * keywordOverlap
_calculateSemanticMomentum(context, previousContext) ==
  IF previousContext = NullContext THEN One
  ELSE LET jaccard == _calculateOverlap(context.state.keys,
                                        previousContext.state.keys)
           keywordOverlap == _calculateOverlap(
                               _extractKeywords(context.state),
                               _extractKeywords(previousContext.state))
       IN  (6 * jaccard + 4 * keywordOverlap) \div 10

\* t.target || t.source
TargetOrSource(t) == IF t.target # Undefined THEN t.target ELSE t.source

\* new Set(transitions.map(t => t.target || t.source))
Targets(transitions) ==
  {TargetOrSource(transitions[i]) : i \in DOMAIN transitions}

\* overlap > 0.3
_checkTransitionPattern(transitions1, transitions2) ==
  IF Len(transitions1) = 0 \/ Len(transitions2) = 0 THEN FALSE
  ELSE 10 * _calculateOverlap(Targets(transitions1), Targets(transitions2))
         > 3 * One

\* Factor 3: 1.0, 0.9, 0.7 or 0.3
_calculateOperationalMomentum(context, previousContext) ==
  IF previousContext = NullContext THEN One
  ELSE IF context.appId = previousContext.appId THEN 900000
  ELSE IF _checkTransitionPattern(context.transitions,
                                  previousContext.transitions)
    THEN 700000
  ELSE 300000

\* state.steps is an array: its length is added.
_countReasoningSteps(state) ==
  IF "steps" \in state.keys THEN state.steps ELSE 0

ContinuityMarkers ==
  {"therefore", "thus", "consequently", "following", "building on",
   "extending", "continuing", "next"}

\* markers.some(marker => text.includes(marker)): of the modelled words only
\* "next" has a marker as a part.
_hasContinuityMarkers(state) == JsonWords(state) \cap ContinuityMarkers # {}

\* Factor 4: min(1, min(1, reasoningSteps / 10) + (hasContinuity ? 0.2 : 0))
_calculateDepthMomentum(context) ==
  LET depthScore == Min(One, (_countReasoningSteps(context.state) * One) \div 10)
      continuityBonus == IF _hasContinuityMarkers(context.state) THEN 200000
                         ELSE 0
  IN  Min(One, depthScore + continuityBonus)

\* state[key] is falsy: the key is absent, or its number is 0.
Falsy(state, key) ==
  ~(key \in state.keys) \/ (key = "confidence" /\ state.confidence = 0)
    \/ (key = "certainty" /\ state.certainty = 0)

\* Factor 5: 0.5 when state.confidence and state.certainty are both falsy,
\* else min(1, (confidence || certainty) + min(0.3, accessCount * 0.05))
_calculateConfidenceMomentum(context) ==
  LET state == context.state
      confidence == IF ~Falsy(state, "confidence") THEN state.confidence
                    ELSE IF ~Falsy(state, "certainty") THEN state.certainty
                    ELSE 500000
      accessBonus == Min(300000, context.accessCount * 50000)
  IN  IF Falsy(state, "confidence") /\ Falsy(state, "certainty") THEN 500000
      ELSE Min(One, confidence + accessBonus)

\* this.config.factors, in hundredths.
Weights ==
  [temporal |-> 25, semantic |-> 30, operational |-> 20, depth |-> 15,
   confidence |-> 10]

WeightedSum(factors) ==
  (factors.temporal * Weights.temporal + factors.semantic * Weights.semantic
   + factors.operational * Weights.operational
   + factors.depth * Weights.depth
   + factors.confidence * Weights.confidence) \div 100

\* The weighted sum limited from above only.
CombineWithoutFloor(factors) == Min(One, WeightedSum(factors))

_combineFactors(factors) ==
  MathMax(engineConfig.minMomentum, Min(One, WeightedSum(factors)))

\* The vector calculateMomentum builds.
MomentumVector(context, previousContext) ==
  LET factors ==
        [temporal |-> _calculateTemporalMomentum(context),
         semantic |-> _calculateSemanticMomentum(context, previousContext),
         operational |-> _calculateOperationalMomentum(context,
                                                       previousContext),
         depth |-> _calculateDepthMomentum(context),
         confidence |-> _calculateConfidenceMomentum(context)]
  IN  [timestamp |-> clock, contextId |-> context.id, factors |-> factors,
       overall |-> _combineFactors(factors)]

\* A context without a state: `state[key]` is a read of a property of
\* undefined.
ThrowsTypeError(context, previousContext) ==
  ~context.hasState
    \/ (previousContext # NullContext /\ ~previousContext.hasState)

NoVectors == [k \in {} |-> NoVector]

\* A cache that keeps the first vector of an id.
SetOnce(vectors, vector) ==
  IF vector.contextId \in DOMAIN vectors THEN vectors
  ELSE Put(vectors, vector.contextId, vector)

\* this.momentumVectors.set(context.id, vector)
SetVector(vectors, vector) == Put(vectors, vector.contextId, vector)

\* MomentumEngine.calculateMomentum(context, previousContext) on a context
\* record of the data model.
calculateMomentumVector(context, previousContext) ==
  LET vector == MomentumVector(context, previousContext)
      call == [L0 EXCEPT !.op = "calculateMomentum", !.id = context.id,
                         !.context = context, !.previous = previousContext]
  IN  /\ IF ThrowsTypeError(context, previousContext)
           THEN /\ last' = [call EXCEPT !.ret = "TypeError"]
                /\ UNCHANGED <<momentumVectors, scored>>
           ELSE /\ momentumVectors' = SetVector(momentumVectors, vector)
                /\ scored' = Put(scored, context.id, vector)
                /\ last' = [call EXCEPT !.ret = "vector", !.vector = vector]
      /\ UNCHANGED <<engineConfig, transitionHistory, filterHistory, given>>
      /\ UNCHANGED <<vaultVars, clock, platforms, activeContext,
                     contextHistory, pending, maxContexts>>

\* The array without its last element.
WithoutLast(history) == SubSeq(history, 1, Len(history) - 1)

\* Array.prototype.shift: the array without its first element.
Shift(history) == Tail(history)

\* recordTransition(transition); `record` is the transition given.
recordTransition(record) ==
  LET pushed == Append(transitionHistory,
                       [transition |-> record, recordedAt |-> clock])
  IN  /\ transitionHistory' =
           IF Len(pushed) > engineConfig.maxHistory THEN Shift(pushed)
           ELSE pushed
      /\ last' = [L0 EXCEPT !.op = "recordTransition",
                            !.transition = record, !.ret = "undefined",
                            !.lenBefore = Len(transitionHistory)]
      /\ UNCHANGED <<engineConfig, scored, filterHistory, given>>
      /\ UNCHANGED <<vaultVars, clock, bridgeVars>>

getMomentumVector(contextId) ==
  IF contextId \in DOMAIN momentumVectors THEN momentumVectors[contextId]
  ELSE NoVector

\* getStats() of the engine: count and transitions.
MomentumStats ==
  [count |-> Cardinality(DOMAIN momentumVectors),
   transitions |-> Len(transitionHistory)]

\* MomentumEngine.clear()
clear ==
  /\ momentumVectors' = NoVectors
  /\ transitionHistory' = <<>>
  /\ scored' = NoVectors
  /\ last' = [L0 EXCEPT !.op = "clear", !.ret = "undefined"]
  /\ UNCHANGED <<engineConfig, filterHistory, given>>
  /\ UNCHANGED <<vaultVars, clock, platforms, activeContext, contextHistory,
                 pending, maxContexts>>

\* The defaults of the constructor: halfLife 30000 ms (two clock ticks of
\* 15 s), minMomentum 0.1, maxHistory 1000.
EngineDefaults ==
  [halfLife |-> 2, minMomentum |-> 100000, maxHistory |-> 1000]

NoInput == [answer |-> EmptyText, question |-> EmptyText]

\* new MomentumEngine(cfg) and new AIHousekeeper()
ScoringOver(cfgs, inputs) ==
  /\ engineConfig \in cfgs
  /\ transitionHistory = <<>>
  /\ scored = NoVectors
  /\ filterHistory = <<>>
  /\ given \in inputs

ScoringIdle == ScoringOver({EngineDefaults}, {NoInput})

-----------------------------------------------------------------------------
(* AIHousekeeper (src/src/core/AIHousekeeper.js): filterAnswers and the      *)
(* eight factor scores.  A text is a sequence of tokens separated by single  *)
(* blanks: lower-case words, the full stop and the paragraph break, followed *)
(* by `pad` further words "lorem".  Of the scorer's markers and patterns the *)
(* modelled words contain those listed with each factor; no marker extends   *)
(* over two of the modelled words.  Not modelled: amplify.                   *)

FullStop == "."

\* "\n\n"
ParagraphBreak == "nn"

WordTokens ==
  {"what", "why", "is", "because", "maybe", "proven", "therefore", "however",
   "while", "study", "analysis", "some", "exact", "lorem", "ipsum"}

Tokens == WordTokens \cup {FullStop, ParagraphBreak}

PadWord == "lorem"

\* The word `token` has `part` as a part of it.
Contains(token, part) ==
  \/ token = part
  \/ <<token, part>> \in {<<"analysis", "is">>, <<"because", "cause">>,
                          <<"however", "how">>}

\* text.includes(part), for one of several parts
Includes(text, parts) ==
  \E i \in DOMAIN text.tokens, part \in parts : Contains(text.tokens[i], part)

IsWord(token) == token \in WordTokens

\* text.match(/\b\w+\b/g) || []
_extractWords(text) ==
  SelectSeq(text.tokens, IsWord) \o [i \in 1..text.pad |-> PadWord]

\* The number of elements of a sequence that satisfy Test.
Count(s, Test(_)) == Len(SelectSeq(s, Test))

\* Factor 1: min(1, overlap / questionWords + 0.3)
_scoreRelevance(answer, question) ==
  LET answerWords == _extractWords(answer)
      questionWords == _extractWords(question)
      InQuestion(w) == \E i \in DOMAIN questionWords : questionWords[i] = w
      overlap == Count(answerWords, InQuestion)
      relevance == IF Len(questionWords) > 0
                     THEN (overlap * One) \div Len(questionWords)
                     ELSE 0
  IN  Min(One, relevance + 300000)

\* Distance from the optimal length.
Distance(wordCount) ==
  IF wordCount >= 150 THEN wordCount - 150 ELSE 150 - wordCount

\* 1 - distance / (optimal + tolerance), not limited to [0, 1].
CompletenessOfDistance(answer) ==
  LET wordCount == Len(_extractWords(answer))
  IN  IF wordCount < 20 THEN 300000
      ELSE IF wordCount > 500 THEN 600000
      ELSE One - (Distance(wordCount) * One) \div 250

\* Factor 2
_scoreCompleteness(answer) ==
  LET wordCount == Len(_extractWords(answer))
  IN  IF wordCount < 20 THEN 300000
      ELSE IF wordCount > 500 THEN 600000
      ELSE MathMax(0, Min(One, One - (Distance(wordCount) * One) \div 250))

RECURSIVE CountSentences(_, _)
\* The parts between full stops that hold a word; `open`: the part being
\* read holds one.
CountSentences(tokens, open) ==
  IF tokens = <<>> THEN (IF open THEN 1 ELSE 0)
  ELSE IF Head(tokens) = FullStop
    THEN (IF open THEN 1 ELSE 0) + CountSentences(Tail(tokens), FALSE)
  ELSE CountSentences(Tail(tokens), open \/ IsWord(Head(tokens)))

\* answer.split(/[.!?]+/).filter(s => s.trim().length > 0).length
Sentences(answer) ==
  CountSentences(answer.tokens \o (IF answer.pad > 0 THEN <<PadWord>> ELSE <<>>),
                 FALSE)

\* Factor 3: 0.4, +0.3 for a connector, +0.2 for three sentences, +0.1 for
\* a paragraph break
_scoreStructure(answer) ==
  LET hasConnectors == Includes(answer, {"therefore", "however", "moreover",
                                         "furthermore", "additionally",
                                         "consequently", "nevertheless",
                                         "thus"})
      multiSentence == Sentences(answer) >= 3
      hasParagraphs == Includes(answer, {ParagraphBreak})
  IN  Min(One, 400000 + (IF hasConnectors THEN 300000 ELSE 0)
                      + (IF multiSentence THEN 200000 ELSE 0)
                      + (IF hasParagraphs THEN 100000 ELSE 0))

\* Factor 4
_scoreConfidenceMarkers(answer) ==
  LET hasConfident == Includes(answer, {"research shows", "studies indicate",
                                        "evidence suggests", "proven",
                                        "established"})
      hasUncertain == Includes(answer, {"might", "maybe", "perhaps",
                                        "possibly", "unclear", "uncertain"})
  IN  IF hasConfident /\ ~hasUncertain THEN 900000
      ELSE IF hasConfident /\ hasUncertain THEN 700000
      ELSE IF ~hasConfident /\ ~hasUncertain THEN 500000
      ELSE 300000

\* Factor 5.  Of the three patterns the modelled words can match
\* /(although|while|whereas).*(?:but|however)/i alone; `.` matches no line
\* break.
_scoreContradictions(answer) ==
  LET tokens == answer.tokens
      hasContradiction ==
        \E i, j \in DOMAIN tokens :
          /\ i < j
          /\ \E part \in {"although", "while", "whereas"} :
               Contains(tokens[i], part)
          /\ \E part \in {"but", "however"} : Contains(tokens[j], part)
          /\ \A k \in i..j : tokens[k] # ParagraphBreak
  IN  IF hasContradiction THEN 300000 ELSE One

\* /^how/i, /^why/i, /^what/i, /^when/i on the question
_detectQuestionType(question) ==
  IF question.tokens = <<>> THEN "general"
  ELSE LET first == Head(question.tokens)
       IN  IF Contains(first, "how") THEN "how"
           ELSE IF Contains(first, "why") THEN "why"
           ELSE IF Contains(first, "what") THEN "what"
           ELSE IF Contains(first, "when") THEN "when"
           ELSE "general"

_detectAnswerFormat(answer) ==
  [hasSteps |-> Includes(answer, {"step", "first", "second", "next", "then",
                                  "finally"}),
   hasReasons |-> Includes(answer, {"because", "since", "due to", "reason",
                                    "cause"}),
   hasDefinition |-> Includes(answer, {"is", "means", "refers to",
                                       "defined as"}),
   hasTimeframe |-> Includes(answer, {"when", "during", "after", "before",
                                      "time", "period"})]

\* Factor 6
_scoreContextAlignment(answer, question) ==
  LET questionType == _detectQuestionType(question)
      answerFormat == _detectAnswerFormat(answer)
      aligned == \/ questionType = "how" /\ answerFormat.hasSteps
                 \/ questionType = "why" /\ answerFormat.hasReasons
                 \/ questionType = "what" /\ answerFormat.hasDefinition
                 \/ questionType = "when" /\ answerFormat.hasTimeframe
  IN  IF aligned THEN 900000 ELSE 500000

\* A tie of specific and vague matches scored as vague.
SpecificityWithoutTie(answer) ==
  LET IsSpecific(token) == Contains(token, "exact")
      IsVague(token) == Contains(token, "some")
  IN  IF Count(answer.tokens, IsSpecific) > Count(answer.tokens, IsVague)
        THEN 800000
      ELSE 300000

\* Factor 7.  Of the specific patterns the modelled words match "exact", of
\* the vague ones "some".
_scoreSpecificity(answer) ==
  LET IsSpecific(token) == Contains(token, "exact")
      IsVague(token) == Contains(token, "some")
      specificCount == Count(answer.tokens, IsSpecific)
      vagueCount == Count(answer.tokens, IsVague)
  IN  IF specificCount > vagueCount THEN 800000
      ELSE IF specificCount = vagueCount THEN 500000
      ELSE 300000

EvidenceMarkers ==
  {"study", "research", "data", "statistics", "example", "case",
   "experiment", "analysis", "findings", "results"}

\* Factor 8: min(1, count * 0.2)
_scoreEvidence(answer) ==
  LET count == Cardinality({m \in EvidenceMarkers : Includes(answer, {m})})
  IN  Min(One, count * 200000)

\* The weights of _scoreAnswer, in hundredths.
ScoreWeights ==
  [relevance |-> 25, completeness |-> 15, structure |-> 12, confidence |-> 15,
   contradiction |-> 10, context |-> 10, specificity |-> 8, evidence |-> 5]

ScoreNames == DOMAIN ScoreWeights

RECURSIVE SumOver(_, _)
\* The sum of f[x] over x in S.
SumOver(f, S) ==
  IF S = {} THEN 0
  ELSE LET x == CHOOSE y \in S : TRUE IN f[x] + SumOver(f, S \ {x})

_scoreAnswer(answer, question) ==
  LET factors ==
        [relevance |-> _scoreRelevance(answer, question),
         completeness |-> _scoreCompleteness(answer),
         structure |-> _scoreStructure(answer),
         confidence |-> _scoreConfidenceMarkers(answer),
         contradiction |-> _scoreContradictions(answer),
         context |-> _scoreContextAlignment(answer, question),
         specificity |-> _scoreSpecificity(answer),
         evidence |-> _scoreEvidence(answer)]
  IN  [overall |->
         SumOver([n \in ScoreNames |-> factors[n] * ScoreWeights[n]],
                 ScoreNames) \div 100,
       factors |-> factors]

\* The place of x in a list sorted by descending score, before its equals.
InsertBeforeEquals(sorted, x) ==
  LET before == SelectSeq(sorted, LAMBDA y : y.score.overall > x.score.overall)
      after == SelectSeq(sorted, LAMBDA y : y.score.overall <= x.score.overall)
  IN  before \o <<x>> \o after

\* Array.prototype.sort is stable: x comes after the elements that do not
\* sort after it.
Insert(sorted, x) ==
  LET before == SelectSeq(sorted, LAMBDA y : y.score.overall >= x.score.overall)
      after == SelectSeq(sorted, LAMBDA y : y.score.overall < x.score.overall)
  IN  before \o <<x>> \o after

RECURSIVE SortByScore(_)
\* scored.sort((a, b) => b.score.overall - a.score.overall)
SortByScore(list) ==
  IF list = <<>> THEN <<>>
  ELSE Insert(SortByScore(SubSeq(list, 1, Len(list) - 1)), list[Len(list)])

\* Candidates that are an array.
ArrayOf(items) == [isArray |-> TRUE, items |-> items]

\* Candidates that are no array: null, a string, an object.
NotAnArray == [isArray |-> FALSE, items |-> <<>>]

\* A check for an array, of any length.
RejectsNoArray(candidates) == ~candidates.isArray

\* !Array.isArray(candidates) || candidates.length === 0
RejectsCandidates(candidates) ==
  ~candidates.isArray \/ Len(candidates.items) = 0

\* The whole array.
WholeArray(list) == list

\* scored.slice(1)
slice1(list) == Tail(list)

\* filterAnswers(candidates, question).  Only an empty array or a value
\* without `map` that passed the first statement would fail later, with a
\* TypeError and before the push on filterHistory.
filterAnswers(candidates, question) ==
  LET call == [L0 EXCEPT !.op = "filterAnswers",
                         !.isArray = candidates.isArray,
                         !.candidates = candidates.items,
                         !.question = question]
      scoredList == [i \in DOMAIN candidates.items |->
                       [answer |-> candidates.items[i],
                        score |-> _scoreAnswer(candidates.items[i], question)]]
      sorted == SortByScore(scoredList)
  IN  /\ IF RejectsCandidates(candidates)
           THEN /\ last' = [call EXCEPT !.ret = "Error"]
                /\ UNCHANGED filterHistory
           ELSE IF sorted = <<>>
             THEN /\ last' = [call EXCEPT !.ret = "TypeError"]
                  /\ UNCHANGED filterHistory
           ELSE LET best == sorted[1]
                IN  /\ Len(filterHistory) < MaxFiltered
                    /\ filterHistory' =
                         Append(filterHistory,
                                [timestamp |-> clock, question |-> question,
                                 candidateCount |-> Len(candidates.items),
                                 bestScore |-> best.score.overall,
                                 rejected |-> Len(slice1(sorted))])
                    /\ last' = [call EXCEPT
                                  !.ret = "result",
                                  !.result = [answer |-> best.answer,
                                              score |-> best.score,
                                              confidence |-> best.score.overall]]
      /\ UNCHANGED <<engineConfig, transitionHistory, scored, given>>
      /\ UNCHANGED <<vaultVars, clock, bridgeVars>>

\* getStats() of the Housekeeper: totalFiltered and totalRejected.
FilterStats ==
  [totalFiltered |-> Len(filterHistory),
   totalRejected |-> SumOver([i \in DOMAIN filterHistory |->
                                filterHistory[i].rejected],
                             DOMAIN filterHistory)]

\* _scoreAnswer applied to the given answer and question.
scoreGiven ==
  /\ last.op # "_scoreAnswer"
  /\ LET score == _scoreAnswer(given.answer, given.question)
     IN  last' = [L0 EXCEPT !.op = "_scoreAnswer",
                            !.candidates = <<given.answer>>,
                            !.question = given.question,
                            !.ret = "score",
                            !.result = [answer |-> given.answer,
                                        score |-> score,
                                        confidence |-> score.overall]]
  /\ UNCHANGED <<vaultVars, clock, bridgeVars, scoringVars>>

-----------------------------------------------------------------------------
(* The constructor of the facade (index.js): a Vault under a generated key,  *)
(* an engine, a Housekeeper and a bridge, then _restoreState.                *)

\* StateVault.getAllContextIds of a Vault whose map is `map`.
getAllContextIds(map) == DOMAIN map

\* The ids _restoreState hands to the bridge: those of getAllContextIds for
\* which loadContext returns a context.
RestorableIds(map) == {id \in getAllContextIds(map) : map[id] # NullObj}

\* new CONTEXTUAL(config) on the storage location of an earlier instance;
\* cfg is the configuration the Vault is given (the facade passes no key, so
\* the Vault generates one).  _restoreState asks the Vault that was just
\* constructed for its ids; `this.bridge.contexts` is not defined, so a
\* context handed to the bridge would raise a TypeError.
CONTEXTUAL(cfg, storageOk) ==
  /\ cfg.encryptionKey = "gen"
  /\ NewVault(cfg, storageOk)
  /\ platforms' = NoPlatforms
  /\ activeContext' = Null
  /\ contextHistory' = <<>>
  /\ pending' = <<>>
  /\ momentumVectors' = NoVectors
  /\ engineConfig' = EngineDefaults
  /\ transitionHistory' = <<>>
  /\ scored' = NoVectors
  /\ filterHistory' = <<>>
  /\ last' = [L0 EXCEPT !.op = "CONTEXTUAL",
                        !.ret = IF RestorableIds(contexts') = {} THEN "object"
                                ELSE "TypeError",
                        !.restored = {}]
  /\ UNCHANGED <<maxContexts, given>>

-----------------------------------------------------------------------------
(* Specifications *)

\* The state after `new StateVault(cfg)` on an empty storage location.
InitOver(cfgs, oks) ==
  /\ \E cfg \in cfgs, storageOk \in oks :
       /\ config = cfg
       /\ memoryOnly = ~storageOk
       /\ backupTimer = startsTimer(cfg, storageOk)
  /\ contexts = EmptyMap
  /\ ctxFiles = EmptyMap
  /\ bakFiles = [t \in {} |-> JSONstringify(NoSnapshot)]
  /\ clock = 1
  /\ inflight = <<>>
  /\ last = [L0 EXCEPT !.op = "construct"]
  /\ shut = FALSE
  /\ nBackups = 0
  /\ scen = ScenReset
  /\ saved = NoneSaved

Timestamps == 0..MaxClock

\* Spec: the life cycle of a Vault (construction with storage available or
\* not, timer, backups, restore, shutdown, restarts) of a deployment that
\* encrypts under one key it supplies to every instance.
SuppliedKeyConfigs ==
  {c \in Configs : c.encryptionEnabled /\ c.encryptionKey = "k1"}

\* The bridge of a CONTEXTUAL that was given no maxContexts.
BridgeIdle == BridgeConstructed /\ maxContexts = DefaultMaxContexts

Init == InitOver(SuppliedKeyConfigs, BOOLEAN) /\ BridgeIdle /\ ScoringIdle

SaveContext ==
  \E c \in {x \in ContextObjs : x.data = "a"} :
    saveContext(c) /\ UNCHANGED saved

LoadContext == \E id \in Ids : loadContext(id)

Restore == \E timestamp \in Timestamps, lastListed \in Timestamps :
             restore(timestamp, lastListed)

Construct ==
  \E cfg \in SuppliedKeyConfigs, storageOk \in BOOLEAN :
    construct(cfg, storageOk) /\ UNCHANGED saved

Next ==
  \/ SaveContext
  \/ LoadContext
  \/ backup
  \/ timerTick
  \/ shutdown
  \/ backupWrite
  \/ Restore
  \/ Construct
  \/ clockTick

Spec == Init /\ [][Next]_vars

\* SpecCrypto: persistence under every encryption setting (disabled; a
\* supplied key; a generated key; an unusable key), with units altered on
\* the storage medium and restarts that change the setting.  Storage is
\* available and the timer is off; the clock stands still.
CryptoConfigs == {c \in Configs : ~c.backupEnabled}

InitCrypto == InitOver(CryptoConfigs, {TRUE}) /\ BridgeIdle /\ ScoringIdle

\* c1 in both versions of its payload, c2 in one.
CryptoContexts == {x \in ContextObjs : x.id = "c1" \/ x.data = "a"}

SaveAny == \E c \in CryptoContexts : saveContext(c) /\ UNCHANGED saved

TamperContext == \E id \in Ids : tamperContext(id)

Reconfigure ==
  \E cfg \in CryptoConfigs : construct(cfg, TRUE) /\ UNCHANGED saved

NextCrypto ==
  \/ SaveAny
  \/ LoadContext
  \/ TamperContext
  \/ backup
  \/ backupWrite
  \/ Restore
  \/ Reconfigure

SpecCrypto == InitCrypto /\ [][NextCrypto]_vars

\* SpecStore: saveContext, loadContext, deleteContext and clearAll with every
\* kind of argument (no object, no id, an id that is no file name, a Date
\* payload), backup and restore, and restarts under every encryption setting
\* (the first instance with storage available or not).  The timer is off;
\* the clock stands still.
StoreIds == {"c1", PathId}

\* c1 with a plain and with a Date payload, the path id with a plain one.
StoreContexts ==
  {x \in [id : StoreIds, data : {"a", DateValue}] : x.id = "c1" \/ x.data = "a"}

InitStore == InitOver(CryptoConfigs, BOOLEAN) /\ BridgeIdle /\ ScoringIdle

SaveStore ==
  \E c \in StoreContexts \cup {NullObj, NoIdObj} :
    saveContext(c) /\ saved' = Remember(c)

LoadStore == \E id \in StoreIds : loadContext(id)

DeleteContext == \E id \in StoreIds : deleteContext(id)

RestoreStore == \E lastListed \in {0, 1} : restore(0, lastListed)

\* The process is restarted where storage is available.
Restart ==
  \E cfg \in CryptoConfigs :
    construct(cfg, TRUE) /\ saved' = AfterRestart

\* A CONTEXTUAL is constructed where an earlier instance stored.
Contextual ==
  \E cfg \in CryptoConfigs :
    CONTEXTUAL(cfg, TRUE) /\ saved' = AfterRestart

NextStore ==
  \/ SaveStore
  \/ Contextual
  \/ LoadStore
  \/ DeleteContext
  \/ clearAll
  \/ backup
  \/ backupWrite
  \/ RestoreStore
  \/ Restart

SpecStore == InitStore /\ [][NextStore]_vars

\* SpecBridge: the bridge and the facade of one CONTEXTUAL; callers use two
\* of the four platforms and one unknown name.  The Vault is the one the
\* facade constructed; nothing in the bridge or the facade stores into it.
UsedPlatforms == {"chatgpt", "claude"}

\* new CONTEXTUAL({ maxContexts: 1 })
MaxContextsOptions == {1}

InitBridge ==
  /\ InitOver({c \in Configs : c.encryptionEnabled /\ c.encryptionKey = "gen"
                                /\ c.backupEnabled}, {TRUE})
  /\ BridgeConstructed
  /\ maxContexts \in MaxContextsOptions
  /\ ScoringIdle

Connect == \E platform \in UsedPlatforms \cup {UnknownPlatform} :
             connect(platform, "r1")

SwitchContext ==
  \E platform \in UsedPlatforms \cup {UnknownPlatform}, transferContext \in BOOLEAN :
    switchContext(platform, transferContext)

BridgeMessage == bridgeMessage("claude")

Disconnect == \E platform \in UsedPlatforms \cup {UnknownPlatform} :
                disconnect(platform)

CreateContext == createContext("app1")

Transition == transition("claude")

\* A caller scores the active context the way the facade's transition is
\* written to: calculateMomentum(context), without a previous context.
CalculateMomentum == calculateMomentum(activeContext, Null)

NextBridge ==
  \/ Connect
  \/ SwitchContext
  \/ switchResume
  \/ BridgeMessage
  \/ Disconnect
  \/ disconnectAll
  \/ CreateContext
  \/ Transition
  \/ updateState
  \/ CalculateMomentum

SpecBridge == InitBridge /\ [][NextBridge]_vars

\* SpecSwitch: switchContext calls that overlap, on a bridge nobody
\* disconnects from: a call is made while another is suspended in its
\* transfer, up to one record beyond MaxHistory.
SwitchOverlapping ==
  \E platform \in UsedPlatforms, transferContext \in BOOLEAN :
    /\ Len(contextHistory) + Len(pending) <= MaxHistory
    /\ switchBegin(platform, transferContext)

NextSwitch ==
  \/ Connect
  \/ SwitchOverlapping
  \/ switchResume

SpecSwitch == InitBridge /\ [][NextSwitch]_vars

\* SpecIds: the context ids the bridge hands out, over time and over the
\* values Math.random() yields.
ConnectAny == \E platform \in Platforms, rand \in Randoms :
                connect(platform, rand)

DisconnectAny == \E platform \in Platforms : disconnect(platform)

NextIds ==
  \/ ConnectAny
  \/ DisconnectAny
  \/ disconnectAll
  \/ clockTick

SpecIds == InitBridge /\ [][NextIds]_vars

\* The Vault of a CONTEXTUAL constructed without options.
DefaultVault ==
  InitOver({c \in Configs : c.encryptionEnabled /\ c.encryptionKey = "gen"
                              /\ c.backupEnabled}, {TRUE})

\* SpecFactors: the five factors and their combination, over contexts of
\* one id that differ in lastAccess (before, at and after the clock
\* reading), in state and accessCount, in appId and transitions, scored alone
\* or against a previous context, under half-lives of one and two clock
\* ticks and a minMomentum of 0.1 and of 0.6.
HalfLifeOptions == {1, 2}

MinMomentumOptions == {100000, 600000}

FactorConfigs ==
  [halfLife : HalfLifeOptions, minMomentum : MinMomentumOptions,
   maxHistory : {EngineDefaults.maxHistory}]

LastAccesses == (0 - 1)..(MaxClock + 1)

StateKeys == {"confidence", "certainty", "steps", "topic"}

\* state.confidence: -0.5, 0.8 and 7
Confidences == {0 - 500000, 800000, 7 * One}

StepCounts == {3, 12}

Topics == {"physics", "that", "next"}

\* state.certainty: 0.6
Certainties == {600000}

\* States with state.confidence alone, with state.certainty alone or beside
\* a confidence of 0, and states without either.
StateObjs ==
  {[EmptyState EXCEPT !.keys = {"confidence"}, !.confidence = c] :
     c \in Confidences \cup {0}}
    \cup {[EmptyState EXCEPT !.keys = k \cup {"certainty"}, !.certainty = c] :
            k \in SUBSET {"confidence"}, c \in Certainties}
    \cup {s \in [keys : SUBSET {"steps", "topic"}, confidence : {0},
                 certainty : {0},
                 steps : StepCounts \cup {0}, topic : Topics \cup {"-"}] :
            /\ ("steps" \in s.keys) <=> s.steps # 0
            /\ ("topic" \in s.keys) <=> s.topic # "-"}

\* accessCount * 0.05 below and above 0.3
AccessCounts == {0, 7}

\* { timestamp, from, to, transferred } of ContextBridge.switchContext
BridgeRecord(from, to) == [NoTransition EXCEPT !.from = from, !.to = to]

\* A record with the field the engine reads.
EngineRecord(target) == [NoTransition EXCEPT !.target = target]

TransitionLists ==
  {<<>>,
   <<BridgeRecord("c1", "c2")>>, <<BridgeRecord("c3", "c4")>>,
   <<EngineRecord("c2")>>, <<EngineRecord("c4")>>,
   <<EngineRecord("c2"), EngineRecord("c3")>>,
   <<EngineRecord("c2"), EngineRecord("c3"), EngineRecord("c5"),
     EngineRecord("c6")>>}

AppIds == {"app1", "app2"}

BaseContext ==
  [id |-> "c1", appId |-> "app1", lastAccess |-> 1, accessCount |-> 0,
   hasState |-> TRUE, state |-> EmptyState, transitions |-> <<>>]

AccessedContexts ==
  {[BaseContext EXCEPT !.lastAccess = t] : t \in LastAccesses}

\* accessCount is read together with state.confidence or state.certainty.
StateContexts ==
  {x \in {[BaseContext EXCEPT !.state = s, !.accessCount = n] :
            s \in StateObjs, n \in AccessCounts} :
     x.accessCount = 0 \/ x.state.keys \cap {"confidence", "certainty"} # {}}

TransitionContexts ==
  {[BaseContext EXCEPT !.appId = a, !.transitions = tr] :
     a \in AppIds,
     tr \in {<<>>, <<BridgeRecord("c1", "c2")>>, <<EngineRecord("c2")>>}}

PreviousStates ==
  {s \in StateObjs :
     s.steps = 0 /\ s.topic # "next" /\ s.confidence <= 0 /\ s.certainty = 0}

\* (context, previousContext): every context alone; contexts that differ
\* in state against previous contexts that do; contexts that differ in
\* appId and transitions against previous contexts that differ in
\* transitions.
FactorPairs ==
  ((AccessedContexts \cup StateContexts \cup TransitionContexts)
     \X {NullContext})
    \cup ({x \in StateContexts : x.accessCount = 0}
            \X {[BaseContext EXCEPT !.id = "c2", !.state = s] :
                  s \in PreviousStates})
    \cup (TransitionContexts
            \X {[BaseContext EXCEPT !.id = "c2", !.transitions = tr] :
                  tr \in TransitionLists})

InitFactors == DefaultVault /\ BridgeIdle /\ ScoringOver(FactorConfigs, {NoInput})

CalculateFactors ==
  \E pair \in FactorPairs : calculateMomentumVector(pair[1], pair[2])

NextFactors ==
  \/ CalculateFactors
  \/ clockTick

SpecFactors == InitFactors /\ [][NextFactors]_vars

\* SpecEngine: the cache of vectors and the transition history of one
\* engine that keeps one or two transitions; two contexts are scored and
\* rescored as time passes, one context has no state.
HistoryOptions == {1, 2}

EngineConfigs ==
  [halfLife : {EngineDefaults.halfLife},
   minMomentum : {EngineDefaults.minMomentum}, maxHistory : HistoryOptions]

InitEngine == DefaultVault /\ BridgeIdle /\ ScoringOver(EngineConfigs, {NoInput})

Score ==
  \E id \in Ids, t \in {0, 1} :
    calculateMomentumVector([BaseContext EXCEPT !.id = id, !.lastAccess = t],
                            NullContext)

ScoreWithoutState ==
  \E id \in Ids :
    calculateMomentumVector([BaseContext EXCEPT !.id = id, !.hasState = FALSE],
                            NullContext)

RecordTransition ==
  \E tr \in {BridgeRecord("c1", "c2"), BridgeRecord("c2", "c1")} :
    recordTransition(tr)

NextEngine ==
  \/ Score
  \/ ScoreWithoutState
  \/ RecordTransition
  \/ clear
  \/ clockTick

SpecEngine == InitEngine /\ [][NextEngine]_vars

\* The sequences over S of length at most n.
SeqsUpTo(S, n) == UNION {[1..k -> S] : k \in 0..n}

\* A text without padding.
Text(tokens) == [tokens |-> tokens, pad |-> 0]

\* SpecScore: _scoreAnswer over every text of up to MaxTokens tokens and
\* over texts of 19, 20, 150, 450 and 501 words, with no question, with
\* questions of each type the modelled words can begin and with a question
\* whose words the padded texts repeat.
PadCounts == {19, 20, 150, 450, 501}

ScoreAnswers ==
  {Text(s) : s \in SeqsUpTo(Tokens, MaxTokens)}
    \cup {[tokens |-> <<>>, pad |-> n] : n \in PadCounts}

Questions ==
  {EmptyText, Text(<<"what", "is", "lorem">>), Text(<<"why">>),
   Text(<<"however">>)}

InitScore ==
  /\ DefaultVault
  /\ BridgeIdle
  /\ ScoringOver({EngineDefaults}, [answer : ScoreAnswers, question : Questions])

NextScore == scoreGiven

SpecScore == InitScore /\ [][NextScore]_vars

\* SpecFilter: filterAnswers on lists of up to MaxCandidates answers out of
\* the empty one, one that scores as the empty one does and one that scores
\* higher, on an empty array and on a value that is no array; the question
\* is a fixed one or, for a single answer, the empty one.
FilterAnswers == {EmptyText, Text(<<"ipsum">>), Text(<<"proven">>)}

CandidateLists == SeqsUpTo(FilterAnswers, MaxCandidates)

FilterQuestion == Text(<<"what", "is", "lorem">>)

InitFilter == DefaultVault /\ BridgeIdle /\ ScoringIdle

Filter ==
  \E items \in CandidateLists : filterAnswers(ArrayOf(items), FilterQuestion)

FilterNoArray == filterAnswers(NotAnArray, FilterQuestion)

FilterEmptyQuestion ==
  \E answer \in FilterAnswers : filterAnswers(ArrayOf(<<answer>>), EmptyText)

NextFilter ==
  \/ Filter
  \/ FilterNoArray
  \/ FilterEmptyQuestion

SpecFilter == InitFilter /\ [][NextFilter]_vars

-----------------------------------------------------------------------------
(* Properties *)

BackupOps == {"backup", "tick", "shutdown"}

Max(S) == CHOOSE x \in S : \A y \in S : y <= x

\* C1: with encryption enabled, loadContext(id) on a Vault that does not hold
\* id in memory, when the persisted unit of id has been tampered with,
\* returns null and caches nothing under id.
C1_TamperedLoadReturnsNull ==
  ( /\ last.op = "loadContext"
    /\ ~last.hit
    /\ ~memoryOnly
    /\ config.encryptionEnabled
    /\ last.id \in DOMAIN ctxFiles
    /\ ctxFiles[last.id].key = "tampered" )
  => /\ last.obj = NullObj
     /\ last.id \notin DOMAIN contexts

\* C2: shutdown(), then restore(null) on a fresh Vault on the same storage
\* (read here in the way most favourable to the code: storage available to
\* both instances, same encryption setting and same supplied key) returns
\* true and leaves exactly the pre-shutdown contexts in memory.
C2_ShutdownRestoreRoundTrip ==
  (scen.stage = 3 /\ scen.same)
  => /\ last.ret = "true"
     /\ contexts = scen.pre

\* C3: after every completed backup() at most maxBackups snapshot units
\* exist, and after maxBackups + 1 backups exactly maxBackups remain.
C3_BackupRotation ==
  (last.op \in BackupOps /\ last.nWrites = 1)
  => /\ Cardinality(DOMAIN bakFiles) <= MaxBackups
     /\ nBackups > MaxBackups => Cardinality(DOMAIN bakFiles) = MaxBackups

\* The parts of C3 that do not depend on snapshot names being distinct: the
\* backups collection never holds more than maxBackups units, and a backup
\* keeps the newest units among the old ones and the one it writes.
RotationBound == Cardinality(DOMAIN bakFiles) <= MaxBackups

RotationKeepsNewest ==
  [][ (inflight # <<>> /\ inflight' = Tail(inflight))
      => LET all == DOMAIN bakFiles \cup {Head(inflight).ts}
         IN  /\ DOMAIN bakFiles' \subseteq all
             /\ \A t \in all \ DOMAIN bakFiles' :
                  \A u \in DOMAIN bakFiles' : t < u
             /\ Cardinality(DOMAIN bakFiles')
                  = Min(MaxBackups, Cardinality(all)) ]_vars

\* C4: every backup() that writes creates a snapshot unit under a name no
\* existing unit has, and leaves every existing unit that survives rotation
\* as it was.
C4_SnapshotsWriteOnce ==
  [][ (inflight # <<>> /\ inflight' = Tail(inflight))
      => /\ Head(inflight).ts \notin DOMAIN bakFiles
         /\ \A t \in DOMAIN bakFiles \cap DOMAIN bakFiles' :
              bakFiles'[t] = bakFiles[t] ]_vars

\* C5: restore(null) reads the snapshot with the latest timestamp, whatever
\* the listing order, and on success the in-memory map holds exactly that
\* snapshot's contexts.
C5_RestoreLatest ==
  (last.op = "restore" /\ last.latest /\ ~memoryOnly /\ DOMAIN bakFiles # {})
  => /\ last.chosen = Max(DOMAIN bakFiles)
     /\ last.ret = "true" =>
          contexts = RestoreMap(bakFiles[last.chosen].body.contexts)

\* C6: restore returns false when no snapshot exists, when the requested
\* timestamp has no snapshot and when decryption of the chosen snapshot
\* fails; it never returns true after a decryption failure.
C6_RestoreFailsSafely ==
  (last.op = "restore")
  => ( ( \/ DOMAIN bakFiles = {}
         \/ (~last.latest /\ last.chosen = 0)
         \/ last.decFailed )
       => last.ret = "false" )

\* C7: shutdown() leaves the timer cancelled and, with storage available,
\* has written exactly one snapshot when it returns; once shutdown() has
\* returned on an instance no timer-driven backup starts or completes.
C7_GracefulShutdown ==
  /\ last.op = "shutdown" =>
       /\ ~backupTimer
       /\ ~memoryOnly => last.nWrites = 1
  /\ shut =>
       /\ ~backupTimer
       /\ last.op # "tick"
       /\ \A i \in DOMAIN inflight : inflight[i].caller # "tick"

\* A shutdown of an instance whose timer was armed has returned after
\* writing its final snapshot.
C7_Witness ==
  /\ shut
  /\ last.op = "shutdown"
  /\ last.nWrites = 1
  /\ config.backupEnabled

\* C8: at most one backup of the Vault is in progress at any time.
C8_NoOverlappingBackups == Len(inflight) <= 1

\* A backup is in progress while the timer is armed.
C8_Witness == Len(inflight) = 1 /\ backupTimer /\ inflight[1].caller = "backup"

\* C9: in fallback mode no timer runs, getStats reports memoryOnly true and
\* autoBackup false, saveContext and loadContext work on the in-memory map,
\* backup() writes nothing and restore returns false.
C9_FallbackMode ==
  memoryOnly
  => /\ ~backupTimer
     /\ getStats.memoryOnly
     /\ ~getStats.autoBackup
     /\ last.op = "saveContext" => last.id \in DOMAIN contexts
     /\ (last.op = "loadContext" /\ last.hit) => last.obj = contexts[last.id]
     /\ last.op \in BackupOps => last.nWrites = 0
     /\ last.op = "restore" => last.ret = "false"

\* C10: with encryption enabled every unit the Vault writes is an envelope,
\* never the plaintext JSON, also when the encryption step fails.
C10_NoPlaintextWritten ==
  ( /\ config.encryptionEnabled
    /\ last.op \in BackupOps \cup {"saveContext"}
    /\ last.wrote # "-" )
  => last.wrote = "envelope"

\* C11: loadContext(id) on a fresh Vault with storage, served from storage,
\* returns the object of the last saveContext of id by an earlier
\* non-fallback Vault with the same encryption setting and the same key.
C11_SaveLoadRoundTrip ==
  ( /\ last.op = "loadContext"
    /\ ~last.hit
    /\ ~memoryOnly
    /\ last.id \in DOMAIN saved
    /\ ~saved[last.id].live
    /\ saved[last.id].enc = config.encryptionEnabled
    /\ saved[last.id].enc => saved[last.id].key = config.encryptionKey )
  => last.obj = saved[last.id].obj

\* The round trip of C11 for the contexts whose unit can be written and
\* whose payload JSON represents.
RoundTripOfJsonContexts ==
  ( /\ last.op = "loadContext"
    /\ ~last.hit
    /\ ~memoryOnly
    /\ last.id \in DOMAIN saved
    /\ ~saved[last.id].live
    /\ saved[last.id].enc = config.encryptionEnabled
    /\ saved[last.id].enc => saved[last.id].key = config.encryptionKey
    /\ WritableName(last.id)
    /\ JsonObject(saved[last.id].obj) = saved[last.id].obj )
  => last.obj = saved[last.id].obj

\* C12: a context saved on this Vault instance and not deleted or cleared
\* since is retrievable: loadContext of its id would return an object with
\* that id.
C12_ContextDurability ==
  \A id \in DOMAIN saved :
    saved[id].live => LoadResult(id) # NullObj /\ LoadResult(id).id = id

\* The durability of C12 for the contexts whose unit can be written.
DurabilityOfWritable ==
  \A id \in DOMAIN saved :
    (saved[id].live /\ WritableName(id))
    => LoadResult(id) # NullObj /\ LoadResult(id).id = id

\* C13: saveContext of no object or of an object without an id throws, and
\* the step changes neither the in-memory map nor any persisted unit.
C13_InvalidSaveRejected ==
  [][ (last'.op = "saveContext" /\ last'.id \in {"null", Undefined})
      => /\ last'.ret = "Error"
         /\ contexts' = contexts
         /\ ctxFiles' = ctxFiles
         /\ bakFiles' = bakFiles ]_vars

\* An object without an id was refused by a Vault that holds a context in
\* memory and on storage.
C13_Witness ==
  /\ last.op = "saveContext"
  /\ last.id = Undefined
  /\ last.ret = "Error"
  /\ ~memoryOnly
  /\ DOMAIN contexts # {}
  /\ DOMAIN ctxFiles # {}

\* C14: switchContext to a platform that is unknown or not connected returns
\* false without throwing, and the call changes neither activeContext nor
\* the ledger.
C14_UnknownTargetReturnsFalse ==
  [][ (last'.op = "switchContext" /\ ~last'.connected)
      => /\ last'.ret = "false"
         /\ activeContext' = activeContext
         /\ contextHistory' = contextHistory ]_vars

\* The part of C14 about the state: a switchContext that fails changes
\* neither activeContext nor the ledger.
FailedSwitchChangesNothing ==
  [][ (last'.op = "switchContext" /\ ~last'.connected)
      => /\ activeContext' = activeContext
         /\ contextHistory' = contextHistory ]_vars

\* C15: the step in which a switchContext returns success, no other
\* operation having run since it was called, appends exactly one record to
\* the ledger, from the context active just before to the target, and makes
\* the target the active context.
C15_TransitionRecorded ==
  [][ ( /\ last'.op = "switchContext"
        /\ last'.ret = "success"
        /\ ~last'.interleaved
        /\ <<last, contextHistory, activeContext>>'
             # <<last, contextHistory, activeContext>> )
      => /\ \E t \in BOOLEAN :
              contextHistory' =
                Append(contextHistory,
                       [from |-> activeContext, to |-> last'.id,
                        transferred |-> t])
         /\ activeContext' = last'.id ]_vars

\* Two platforms were connected, the bridge switched to the second and then
\* back to the first: the ledger has grown by two records and the first
\* platform is active.
C15_Witness ==
  /\ last.op = "switchContext"
  /\ last.ret = "success"
  /\ ~last.interleaved
  /\ last.lenBefore = 1
  /\ Len(contextHistory) = 2
  /\ contextHistory[1].to = "claude"
  /\ contextHistory[2] = [from |-> "claude", to |-> "chatgpt",
                          transferred |-> TRUE]
  /\ activeContext = "chatgpt"

\* C16: every step leaves the ledger it found as a prefix of the ledger it
\* leaves.
C16_LedgerAppendOnly ==
  [][ /\ Len(contextHistory) <= Len(contextHistory')
      /\ SubSeq(contextHistory', 1, Len(contextHistory)) = contextHistory ]_vars

\* C17: after a switchContext that succeeded while another context was
\* active, the momentum vector stored for the new active context is one
\* computed against that previously active context.
C17_MomentumUsesPrevious ==
  ( /\ last.op = "switchContext"
    /\ last.ret = "success"
    /\ last.prev \notin {Null, last.id} )
  => LET id == platforms[activeContext].contextId
     IN  /\ id \in DOMAIN momentumVectors
         /\ momentumVectors[id].previousContext = last.prev

\* C18: the bridge never holds more live contexts than maxContexts.  (No
\* operation of the bridge evicts a context, so the clause about evicted
\* contexts has no case.)
C18_MaxLiveContexts == Cardinality(Connected) <= maxContexts

\* C19: updateState called while no context is active fails with an error
\* that reports the missing active context, and the call changes no
\* context.
C19_UpdateWithoutActiveContext ==
  [][ (last'.op = "updateState" /\ last'.prev = Null)
      => /\ last'.ret = "NoActiveContext"
         /\ platforms' = platforms
         /\ activeContext' = activeContext ]_vars

Scored == last.op = "calculateMomentum" /\ last.ret = "vector"

FactorNames == {"temporal", "semantic", "operational", "depth", "confidence"}

C22_FactorsWithinUnitInterval ==
  Scored =>
    \A name \in FactorNames :
      /\ 0 <= last.vector.factors[name]
      /\ last.vector.factors[name] <= One

\* The factors that do stay within [0, 1]: semantic, operational and depth.
BoundedFactorsWithinUnitInterval ==
  Scored =>
    \A name \in {"semantic", "operational", "depth"} :
      /\ 0 <= last.vector.factors[name]
      /\ last.vector.factors[name] <= One

\* now - context.lastAccess of a call
TimeSinceAccess(call) == call.vector.timestamp - call.context.lastAccess

C24_OneVectorPerContext ==
  /\ \A id \in Ids :
       getMomentumVector(id) = IF id \in DOMAIN scored THEN scored[id]
                               ELSE NoVector
  /\ MomentumStats.count = Cardinality(DOMAIN scored)

\* Both contexts are scored, the one scored last later than the other.
C24_Witness ==
  /\ Scored
  /\ MomentumStats.count = 2
  /\ getMomentumVector(last.id) = last.vector
  /\ \E id \in Ids : getMomentumVector(id).timestamp < last.vector.timestamp

\* The last n elements of a sequence (all of them, if it has fewer).
LastN(s, n) == SubSeq(s, Len(s) - Min(n, Len(s)) + 1, Len(s))

\* C25: after recordTransition the history holds the transitions it held
\* before followed by the one recorded, less the oldest ones beyond
\* maxHistory: its length is at most maxHistory.
C25_BoundedTransitionHistory ==
  [][ (last'.op = "recordTransition" /\ clock' = clock) =>
        /\ transitionHistory' =
             LastN(Append(transitionHistory,
                          [transition |-> last'.transition,
                           recordedAt |-> clock']),
                   engineConfig.maxHistory)
        /\ Len(transitionHistory') <= engineConfig.maxHistory
    ]_vars

\* A transition recorded into a full history.
C25_Witness ==
  /\ last.op = "recordTransition"
  /\ last.lenBefore = engineConfig.maxHistory
  /\ Len(transitionHistory) = engineConfig.maxHistory
  /\ transitionHistory[Len(transitionHistory)].transition = last.transition

\* C26: filterAnswers(candidates, question) raises a validation error when
\* candidates is empty or no array, and then appends nothing to the filter
\* history: getStats is as before.
C26_InvalidCandidatesRejected ==
  [][ ( /\ last'.op = "filterAnswers"
        /\ ~last'.isArray \/ last'.candidates = <<>> )
      => /\ last'.ret = "Error"
         /\ filterHistory' = filterHistory
         /\ FilterStats' = FilterStats
    ]_vars

\* An empty array is rejected after a call that filtered.
C26_Witness ==
  /\ last.op = "filterAnswers"
  /\ last.isArray
  /\ last.candidates = <<>>
  /\ last.ret = "Error"
  /\ filterHistory # <<>>

\* The overall score of the i-th candidate of the last call.
OverallOf(i) == _scoreAnswer(last.candidates[i], last.question).overall

\* C27: for a non-empty candidate list filterAnswers returns a member of the
\* list whose overall score is the maximum over the candidates, the first of
\* those in the input; the result is determined by the candidates and the
\* question, whatever calls came before.
C27_BestCandidateFirstOfTies ==
  (last.op = "filterAnswers" /\ last.isArray /\ last.candidates # <<>>)
  => /\ last.ret = "result"
     /\ \E i \in DOMAIN last.candidates :
          /\ last.result.answer = last.candidates[i]
          /\ last.result.score =
               _scoreAnswer(last.candidates[i], last.question)
          /\ \A j \in DOMAIN last.candidates : OverallOf(j) <= OverallOf(i)
          /\ \A j \in 1..(i - 1) : OverallOf(j) < OverallOf(i)

\* After an earlier call, two different answers tie at the maximum and the
\* first is returned.
C27_Witness ==
  /\ last.op = "filterAnswers"
  /\ last.ret = "result"
  /\ Len(filterHistory) = 2
  /\ Len(last.candidates) = 2
  /\ last.candidates[1] # last.candidates[2]
  /\ OverallOf(1) = OverallOf(2)
  /\ last.result.answer = last.candidates[1]

\* C28: for every answer and question each of the eight factor scores lies
\* in [0, 1], the eight weights sum to 1, and the overall score lies in
\* [0, 1].
C28_ScoresWithinUnitInterval ==
  last.op = "_scoreAnswer" =>
    /\ \A n \in ScoreNames :
         /\ 0 <= last.result.score.factors[n]
         /\ last.result.score.factors[n] <= One
    /\ SumOver(ScoreWeights, ScoreNames) = 100
    /\ 0 <= last.result.score.overall
    /\ last.result.score.overall <= One

\* An answer of 450 words: its completeness is 0.
C28_Witness ==
  /\ last.op = "_scoreAnswer"
  /\ Len(_extractWords(given.answer)) = 450
  /\ last.result.score.factors.completeness = 0

\* The least value each factor takes.
FactorMinimum ==
  [relevance |-> 300000, completeness |-> 0, structure |-> 400000,
   confidence |-> 300000, contradiction |-> 300000, context |-> 500000,
   specificity |-> 300000, evidence |-> 0]

\* No score is below the least value of its factor.
NoFactorBelowMinimum ==
  last.op = "_scoreAnswer" =>
    \A n \in ScoreNames : last.result.score.factors[n] >= FactorMinimum[n]

\* The factor n of the answer scored has its least value, and the empty
\* answer would receive more.  Reached for completeness (an answer of 450
\* words), contradiction, confidence and specificity.
LessThanEmptyAnswer(n) ==
  /\ last.op = "_scoreAnswer"
  /\ last.result.score.factors[n] = FactorMinimum[n]
  /\ _scoreAnswer(EmptyText, given.question).factors[n] > FactorMinimum[n]

\* A filterAnswers call on an array that holds the empty answer.
FilteredEmptyAnswer ==
  /\ last.op = "filterAnswers"
  /\ last.isArray
  /\ \E i \in DOMAIN last.candidates : last.candidates[i] = EmptyText

EmptyAnswerFactors ==
  [relevance |-> 300000, completeness |-> 300000, structure |-> 400000,
   confidence |-> 500000, contradiction |-> One, context |-> 500000,
   specificity |-> 500000, evidence |-> 0]

BridgeShaped(transitions) ==
  \A i \in DOMAIN transitions :
    /\ transitions[i].from # Undefined
    /\ transitions[i].to # Undefined
    /\ transitions[i].target = Undefined
    /\ transitions[i].source = Undefined

\* The context ids the records refer to.
ReferencedIds(transitions) ==
  UNION {{transitions[i].from, transitions[i].to} : i \in DOMAIN transitions}

\* C30: with a previous context present the operational factor is 0.9 when
\* both contexts have the same appId; otherwise, for transition records
\* shaped as the bridge shapes them, 0.7 exactly when the sets of context
\* ids the two contexts' records refer to overlap by more than 30%, and 0.3
\* when they overlap by less or a context has no transitions.
C30_OperationalFactor ==
  ( /\ Scored
    /\ last.previous # NullContext
    /\ BridgeShaped(last.context.transitions)
    /\ BridgeShaped(last.previous.transitions) )
  => last.vector.factors.operational =
       IF last.context.appId = last.previous.appId THEN 900000
       ELSE IF /\ Len(last.context.transitions) > 0
               /\ Len(last.previous.transitions) > 0
               /\ 10 * _calculateOverlap(
                         ReferencedIds(last.context.transitions),
                         ReferencedIds(last.previous.transitions))
                    > 3 * One
         THEN 700000
       ELSE 300000

\* The same of records that have the field the engine reads.
OperationalFactorOfTargets ==
  ( /\ Scored
    /\ last.previous # NullContext
    /\ ~BridgeShaped(last.context.transitions) \/ last.context.transitions = <<>>
    /\ ~BridgeShaped(last.previous.transitions) \/ last.previous.transitions = <<>> )
  => last.vector.factors.operational =
       IF last.context.appId = last.previous.appId THEN 900000
       ELSE IF /\ Len(last.context.transitions) > 0
               /\ Len(last.previous.transitions) > 0
               /\ 10 * _calculateOverlap(
                         Targets(last.context.transitions),
                         Targets(last.previous.transitions))
                    > 3 * One
         THEN 700000
       ELSE 300000

\* C31: the confidence factor is 0.5 when the state has neither a confidence
\* nor a certainty entry, and for every state whose confidence c is present
\* with 0 <= c <= 1 and every accessCount >= 0 it is
\* min(1, c + min(0.3, accessCount * 0.05)).
C31_ConfidenceFactor ==
  Scored =>
    LET state == last.context.state
        accessBonus == Min(300000, last.context.accessCount * 50000)
    IN  /\ state.keys \cap {"confidence", "certainty"} = {}
             => last.vector.factors.confidence = 500000
        /\ ("confidence" \in state.keys /\ 0 <= state.confidence
               /\ state.confidence <= One)
             => last.vector.factors.confidence
                  = Min(One, state.confidence + accessBonus)

\* The same for a confidence c that is present with 0 < c <= 1.
ConfidenceFactorOfPositive ==
  Scored =>
    LET state == last.context.state
        accessBonus == Min(300000, last.context.accessCount * 50000)
    IN  /\ state.keys \cap {"confidence", "certainty"} = {}
             => last.vector.factors.confidence = 500000
        /\ ("confidence" \in state.keys /\ 0 < state.confidence
               /\ state.confidence <= One)
             => last.vector.factors.confidence
                  = Min(One, state.confidence + accessBonus)

\* A call that scored a context against a previous context.
ScoredAgainstPrevious == Scored /\ last.previous # NullContext

\* C39: for every context whose state has the same keys and the same content
\* as the previous context's state, the empty state included, the semantic
\* factor is 1.0; and the semantic factor is the same with the two contexts
\* exchanged.
C39_SemanticOfIdenticalStates ==
  ScoredAgainstPrevious =>
    /\ last.context.state = last.previous.state
         => last.vector.factors.semantic = One
    /\ last.vector.factors.semantic
         = _calculateSemanticMomentum(last.previous, last.context)

\* The same for identical states from which a keyword is extracted.
SemanticOfIdenticalKeywords ==
  ScoredAgainstPrevious =>
    /\ (/\ last.context.state = last.previous.state
        /\ _extractKeywords(last.context.state) # {})
         => last.vector.factors.semantic = One
    /\ last.vector.factors.semantic
         = _calculateSemanticMomentum(last.previous, last.context)

\* Identical states with a keyword have been scored, and so have different
\* states with common keys.
IdenticalKeywordsScored ==
  /\ ScoredAgainstPrevious
  /\ last.context.state = last.previous.state
  /\ _extractKeywords(last.context.state) # {}

LoadedNothing ==
  /\ last.op = "loadContext"
  /\ ~last.hit
  /\ last.id \notin DOMAIN ctxFiles
  /\ last.obj = NullObj
  /\ DOMAIN contexts # {}

\* C35: a restore that returns false leaves the in-memory context map as it
\* was before the call, whatever made it fail (no snapshots, no snapshot for
\* the timestamp, a decryption failure, a snapshot payload without
\* contexts).
C35_FailedRestoreKeepsMemory ==
  [][ (last'.op = "restore" /\ last'.ret = "false")
      => contexts' = contexts ]_vars

\* The same for the failures before a snapshot is read: fallback mode, no
\* snapshots, no snapshot for the timestamp.
UnreadRestoreKeepsMemory ==
  [][ (last'.op = "restore" /\ last'.ret = "false" /\ last'.chosen = 0)
      => contexts' = contexts ]_vars

\* The content in memory of id equals what its persisted unit deserializes
\* to, when id has both.
Agrees(id) ==
  (id \in DOMAIN contexts /\ id \in DOMAIN ctxFiles)
    => contexts[id] = ParseContext(Opened(ctxFiles[id]))

AllAgree == \A id \in Ids \cup StoreIds : Agrees(id)

\* C38: with storage available, after every Vault operation each id held in
\* the in-memory map that also has a persisted unit has in-memory content
\* equal to the deserialized persisted content.
C38_MemoryStorageAgreement == ~memoryOnly => AllAgree

\* Every operation but restore, and but a saveContext of a payload that JSON
\* does not represent, keeps memory and storage in agreement.
AgreementKept ==
  [][ (/\ AllAgree
       /\ ~memoryOnly'
       /\ last'.op # "restore"
       /\ ~(/\ last'.op = "saveContext"
            /\ last'.id \in DOMAIN contexts'
            /\ contexts'[last'.id].data = DateValue))
      => AllAgree' ]_vars

\* restore has put an older content of a context into memory than the one
\* its persisted unit holds.
RestoredOverNewerUnit ==
  /\ last.op = "restore"
  /\ last.ret = "true"
  /\ \E id \in DOMAIN contexts \cap DOMAIN ctxFiles :
       /\ contexts[id].data = "a"
       /\ ParseContext(Opened(ctxFiles[id])) = [id |-> id, data |-> "b"]

\* C33: constructing a CONTEXTUAL over a storage location in which contexts
\* were persisted by an earlier instance puts every one of those persisted
\* contexts into the registry of the bridge before the constructor returns.
C33_StartupRestore ==
  (last.op = "CONTEXTUAL" /\ ~memoryOnly)
    => /\ last.ret = "object"
       /\ DOMAIN ctxFiles \subseteq last.restored

\* The constructor does return, with nothing restored.
StartupRestoresNothing ==
  last.op = "CONTEXTUAL"
    => /\ last.ret = "object"
       /\ last.restored = {}
       /\ contexts = EmptyMap

\* C34: every successful filterAnswers call on n candidates appends exactly
\* one filterHistory entry with candidateCount = n and rejected = n - 1, so
\* that getStats().totalFiltered grows by one and totalRejected by n - 1; a
\* failed call leaves the log and both totals as they were.
C34_FilterLogAccounting ==
  [][ last'.op = "filterAnswers"
      => LET n == Len(last'.candidates)
         IN  IF last'.ret = "result"
               THEN /\ Len(filterHistory') = Len(filterHistory) + 1
                    /\ SubSeq(filterHistory', 1, Len(filterHistory))
                         = filterHistory
                    /\ filterHistory'[Len(filterHistory')].candidateCount = n
                    /\ filterHistory'[Len(filterHistory')].rejected = n - 1
                    /\ FilterStats'.totalFiltered
                         = FilterStats.totalFiltered + 1
                    /\ FilterStats'.totalRejected
                         = FilterStats.totalRejected + n - 1
               ELSE /\ filterHistory' = filterHistory
                    /\ FilterStats' = FilterStats ]_vars

\* After a call on one candidate, a call on two and a failed call the totals
\* are 2 and 1.
C34_Witness ==
  /\ last.op = "filterAnswers"
  /\ last.ret = "Error"
  /\ Len(filterHistory) = 2
  /\ {filterHistory[1].candidateCount, filterHistory[2].candidateCount}
       = {1, 2}
  /\ FilterStats.totalFiltered = 2
  /\ FilterStats.totalRejected = 1

\* C36: in every reachable state of the bridge, the states between the call
\* and the return of a suspended switchContext included, activeContext is
\* null or a platform that is connected.
C36_ActiveContextConnected ==
  activeContext = Null \/ IsConnected(activeContext)

\* The same for every step but the return of a switchContext during whose
\* suspension another operation ran.
ActiveConnectedUnlessInterleaved ==
  [][ (/\ activeContext = Null \/ IsConnected(activeContext)
       /\ ~(last'.op = "switchContext" /\ last'.interleaved))
      => (activeContext' = Null \/ IsConnected(activeContext)') ]_vars

\* C37: for every interleaving of overlapping switchContext calls, the
\* `from` of each record appended to the ledger is the value activeContext
\* held just before the record's target became active, and so the `to` of
\* the record before it.
C37_LedgerFromIsActiveContext ==
  [][ Len(contextHistory') = Len(contextHistory) + 1
      => LET record == contextHistory'[Len(contextHistory')]
         IN  /\ record.from = activeContext
             /\ Len(contextHistory) > 0
                  => record.from = contextHistory[Len(contextHistory)].to ]_vars

\* The same for the calls during whose suspension no other operation ran.
LedgerFromUnlessInterleaved ==
  [][ (Len(contextHistory') = Len(contextHistory) + 1 /\ ~last'.interleaved)
      => LET record == contextHistory'[Len(contextHistory')]
         IN  /\ record.from = activeContext
             /\ Len(contextHistory) > 0
                  => record.from = contextHistory[Len(contextHistory)].to ]_vars

====
